---- MODULE Spec2Model ----
(***************************************************************************)
(* ROVE: quality control of meteorological observations.                   *)
(* State machine of one validation (Scheduler::validate_direct and         *)
(* Scheduler::schedule_tests), the data switch, the bundled connectors,    *)
(* the pipeline model and the check harness.                               *)
(***************************************************************************)
EXTENDS Integers, Sequences, FiniteSets, TLC

VARIABLES
    pipelines,   \* Scheduler.pipelines: pipeline name -> Pipeline
    pc,          \* position of the validation
    entry,       \* entry point in use: validate_direct or schedule_tests
    req,         \* arguments of the validate_direct call
    pipeline,    \* the pipeline the validation resolved
    switch_log,  \* data source ids handed to DataSwitch::fetch_data
    fetch_log,   \* calls received by connectors (DataConnector::fetch_data)
    fetch_ret,   \* what the connectors returned, in order
    cache,       \* the DataCache owned by the validation
    idx,         \* position of the step iterator in schedule_tests
    inflight,    \* steps whose harness run has started and not yet returned
    results,     \* CheckResults collected so far
    step_log,    \* harness runs started and ended, in order
    outcome,     \* what the entry point returned
    h_test,      \* harness under test: test name
    h_cache,     \* harness under test: cache
    h_out,       \* harness under test: what run_test returned
    calls,       \* concurrent calls on one Scheduler: call id -> the call's locals
    world,       \* what the calls share besides the Scheduler: kernels, build, backend
    entries,     \* the (name, connector) pairs an embedder registers
    switch,      \* the DataSwitch constructed from them
    routed,      \* which connector each lookup of the DataSwitch reached
    srv,         \* RoveService: the state of one validate_series request
    dur          \* frost::duration: the string given to parse_duration and its result

vars == <<pipelines, pc, entry, req, pipeline, switch_log, fetch_log, fetch_ret,
          cache, idx, inflight, results, step_log, outcome, h_test, h_cache, h_out,
          calls, world, entries, switch, routed, srv, dur>>

schedVars == <<pipelines, pc, entry, req, pipeline, switch_log, fetch_log, fetch_ret,
               cache, idx, inflight, results, step_log, outcome>>

harnessVars == <<h_test, h_cache, h_out>>

callVars == <<calls, world>>

registryVars == <<entries, switch, routed>>

(***************************************************************************)
(* Bounds                                                                  *)
(***************************************************************************)
MaxSteps == 2          \* longest pipeline of the "custom" table entry
MaxPad == 1            \* largest hand-written num_*_required of a pipeline
DataLenSpatial == 2    \* TestDataSource.data_len_spatial
FlatlineMax == 2       \* FlatlineCheckConf.max of the flatline step
MaxLead == 2           \* largest num_leading_points of a cache given to run_test
MaxTrail == 1          \* largest num_trailing_points of a cache given to run_test
NumCalls == 2          \* calls running concurrently on one Scheduler
MaxEntries == 3        \* most (name, connector) pairs registered with a DataSwitch
MaxTests == 2          \* longest test list of a validate_series request
MaxInputLen == 4       \* longest string of arbitrary characters given to parse_duration
MaxMonths == 13        \* most months of a RelativeDuration that is serialised

(***************************************************************************)
(* Program constants                                                       *)
(***************************************************************************)
DataLenSingle == 3
DataLenSeries == 1
STEP_LEADING_PER_RUN == 1
SPIKE_LEADING_PER_RUN == 1
SPIKE_TRAILING_PER_RUN == 1
StepLeadingPerRun == 1
DipLeadingPerRun == 2
U8Modulus == 256
PeriodSeconds == 300

NoValue == "None"

Max(a, b) == IF a >= b THEN a ELSE b

(***************************************************************************)
(* Pipeline model (pipeline.rs)                                            *)
(***************************************************************************)
CheckKinds == {"SpecialValueCheck", "RangeCheck", "RangeCheckDynamic", "StepCheck",
               "SpikeCheck", "FlatlineCheck", "BuddyCheck", "Sct",
               "ModelConsistencyCheck", "Dummy"}

PipelineStep(name, kind, max) == [name |-> name, check |-> [kind |-> kind, max |-> max]]

\* mutant: the flatline window is asked for after the timestamp, not before it
get_num_leading_trailing_swapped(check) ==
    CASE check.kind \in {"SpecialValueCheck", "RangeCheck", "RangeCheckDynamic",
                         "BuddyCheck", "Sct", "ModelConsistencyCheck", "Dummy"} -> <<0, 0>>
      [] check.kind = "StepCheck" -> <<STEP_LEADING_PER_RUN, 0>>
      [] check.kind = "SpikeCheck" -> <<SPIKE_LEADING_PER_RUN, SPIKE_TRAILING_PER_RUN>>
      [] check.kind = "FlatlineCheck" -> <<0, check.max>>

\* CheckConf::get_num_leading_trailing
get_num_leading_trailing(check) ==
    CASE check.kind \in {"SpecialValueCheck", "RangeCheck", "RangeCheckDynamic",
                         "BuddyCheck", "Sct", "ModelConsistencyCheck", "Dummy"} -> <<0, 0>>
      [] check.kind = "StepCheck" -> <<STEP_LEADING_PER_RUN, 0>>
      [] check.kind = "SpikeCheck" -> <<SPIKE_LEADING_PER_RUN, SPIKE_TRAILING_PER_RUN>>
      [] check.kind = "FlatlineCheck" -> <<check.max, 0>>

RECURSIVE FoldMax(_, _)
FoldMax(steps, acc) ==
    IF steps = <<>> THEN acc
    ELSE LET x == get_num_leading_trailing(Head(steps).check)
         IN  FoldMax(Tail(steps), <<Max(acc[1], x[1]), Max(acc[2], x[2])>>)

derive_num_leading_trailing(steps) == FoldMax(steps, <<0, 0>>)

Pipeline(steps, lead, trail) ==
    [steps |-> steps, num_leading_required |-> lead, num_trailing_required |-> trail]

\* toml::from_str leaves the two #[serde(skip)] counts at 0
Deserialized(steps) == Pipeline(steps, 0, 0)

load_pipelines(steps) ==
    LET d == derive_num_leading_trailing(steps)
    IN  Pipeline(steps, d[1], d[2])

construct_hardcoded_pipeline ==
    load_pipelines(<<PipelineStep("step_check", "StepCheck", 0),
                     PipelineStep("spike_check", "SpikeCheck", 0),
                     PipelineStep("buddy_check", "BuddyCheck", 0),
                     PipelineStep("sct", "Sct", 0)>>)

(***************************************************************************)
(* Data cache, request arguments (data_switch.rs)                          *)
(***************************************************************************)
\* Option<f32>: an observation, or a gap
Some(v) == <<v>>
Gap == <<>>

\* vec![Timeseries { tag, values: vec![Some(1.); len] }]
Timeseries(tag, len) == [tag |-> tag, values |-> [k \in 1..len |-> Some(1)]]

DataCache(data, start_time, period, lead, trail) ==
    [data |-> data, start_time |-> start_time, period |-> period,
     num_leading_points |-> lead, num_trailing_points |-> trail]

NoCache == DataCache(<<>>, 0, 0, 0, 0)

SpaceOne(id) == [kind |-> "One", id |-> id]
SpaceAll == [kind |-> "All", id |-> ""]

TimeSpec(start, end, resolution) ==
    [start |-> start, end |-> end, time_resolution |-> resolution]

FetchOk(c) == [kind |-> "Ok", err |-> "", cache |-> c]
FetchErr(e) == [kind |-> "Err", err |-> e, cache |-> NoCache]
FetchPanic == [kind |-> "Panic", err |-> "", cache |-> NoCache]

(***************************************************************************)
(* Connectors                                                              *)
(***************************************************************************)
\* dev_utils::TestDataSource (lib.rs)
TestDataSource_fetch_data(space_spec, time_spec, lead, trail, extra_spec) ==
    CASE space_spec.kind = "One" /\ space_spec.id = "single" ->
            {FetchOk(DataCache(<<Timeseries("test", DataLenSingle)>>,
                               0, PeriodSeconds, lead, trail))}
      [] space_spec.kind = "One" /\ space_spec.id = "series" ->
            {FetchOk(DataCache(<<Timeseries("test", DataLenSeries)>>,
                               0, PeriodSeconds, lead, trail))}
      [] space_spec.kind = "One" /\ space_spec.id \notin {"single", "series"} ->
            {FetchPanic}
      [] space_spec.kind = "All" ->
            {FetchOk(DataCache([i \in 1..DataLenSpatial |->
                                    Timeseries("test", lead + 1 + trail)],
                               0, PeriodSeconds, lead, trail))}
      [] OTHER -> {FetchPanic}

\* met_connectors::Frost: what the connector contract lets a fetch return
Frost_fetch_data(space_spec, time_spec, lead, trail, extra_spec) ==
    IF extra_spec = NoValue THEN {FetchErr("InvalidExtraSpec")}
    ELSE IF space_spec.kind # "One" THEN {FetchErr("Other")}
    ELSE {FetchErr("Io"),
          FetchOk(DataCache(
              <<Timeseries(space_spec.id,
                           lead + ((time_spec.end - time_spec.start)
                                       \div time_spec.time_resolution) + 1 + trail)>>,
              time_spec.start - lead * time_spec.time_resolution,
              time_spec.time_resolution, lead, trail))}

\* DataSwitch.sources: the registry given to DataSwitch::new
sources == {"test", "frost"}

Connector_fetch_data(name, space_spec, time_spec, lead, trail, extra_spec) ==
    IF name = "test"
    THEN TestDataSource_fetch_data(space_spec, time_spec, lead, trail, extra_spec)
    ELSE Frost_fetch_data(space_spec, time_spec, lead, trail, extra_spec)

\* the call a connector receives
ConnectorCall(name, space_spec, time_spec, lead, trail, extra_spec) ==
    [connector |-> name, space_spec |-> space_spec, time_spec |-> time_spec,
     num_leading_points |-> lead, num_trailing_points |-> trail,
     extra_spec |-> extra_spec]

\* mutant: an unregistered source falls back to the "test" connector
DataSwitch_fetch_data_fallback(data_source_id, space_spec, time_spec, lead, trail, extra_spec) ==
    [found |-> TRUE, err |-> "",
     calls |-> <<ConnectorCall(IF data_source_id \in sources THEN data_source_id
                                ELSE "test",
                                space_spec, time_spec, lead, trail, extra_spec)>>]

\* DataSwitch::fetch_data up to the connector's await: the connector calls it makes,
\* or the error it returns without calling any
DataSwitch_fetch_data(data_source_id, space_spec, time_spec, lead, trail, extra_spec) ==
    IF data_source_id \notin sources
    THEN [found |-> FALSE, err |-> "InvalidDataSource", calls |-> <<>>]
    ELSE [found |-> TRUE, err |-> "",
          calls |-> <<ConnectorCall(data_source_id, space_spec, time_spec,
                                    lead, trail, extra_spec)>>]

(***************************************************************************)
(* Check harness (harness.rs)                                              *)
(***************************************************************************)
\* what the numerics library (olympian) does in one harness run
KernelOutcomes == {"ok", "failed", "unknown_flag"}

\* the environment of one harness run: the kernel's behaviour and whether the
\* build checks integer overflow (debug) or wraps (release)
HarnessEnvs == [kernel : KernelOutcomes, overflow_checks : BOOLEAN]

HarnessOk(test, flags, test_results) ==
    [kind |-> "Ok", err |-> "", name |-> "", test |-> test,
     flags |-> flags, results |-> test_results]
HarnessErr(e, name) ==
    [kind |-> "Err", err |-> e, name |-> name, test |-> "",
     flags |-> <<>>, results |-> <<>>]
HarnessPanic ==
    [kind |-> "Panic", err |-> "", name |-> "", test |-> "",
     flags |-> <<>>, results |-> <<>>]

KernelErr(env) == IF env.kernel = "failed" THEN "FailedTest" ELSE "UnknownFlag"

\* flag the series kernels give a window of constant data
WindowFlag(values, from, to) ==
    IF \E k \in from..to : values[k] = Gap THEN "DataMissing" ELSE "Pass"

\* the "step_check" and "dip_check" arms: the flags, or the fault
SeriesArm(c, leading_per_run, env) ==
    IF Len(c.data) = 0 THEN [kind |-> "Panic", err |-> "", flags |-> <<>>]
    ELSE
    LET series_len == Len(c.data[1].values)
        underflow == c.num_leading_points < leading_per_run
        start == (c.num_leading_points - leading_per_run) % U8Modulus
        count == Max(0, series_len - start - leading_per_run)
    IN  IF underflow /\ env.overflow_checks
           THEN [kind |-> "Panic", err |-> "", flags |-> <<>>]
        ELSE IF start > series_len
           THEN [kind |-> "Panic", err |-> "", flags |-> <<>>]
        ELSE IF count > 0 /\ env.kernel # "ok"
           THEN [kind |-> "Err", err |-> KernelErr(env), flags |-> <<>>]
        ELSE IF \E i \in 1..Len(c.data) : Len(c.data[i].values) < series_len
           THEN [kind |-> "Panic", err |-> "", flags |-> <<>>]
        ELSE [kind |-> "Ok", err |-> "",
              flags |-> [i \in 1..Len(c.data) |->
                  [tag |-> c.data[i].tag,
                   values |-> [k \in 1..count |->
                       WindowFlag(c.data[i].values, start + k,
                                  start + k + leading_per_run)]]]]

RowHasGap(c, k) ==
    \E i \in 1..Len(c.data) :
        Len(c.data[i].values) < k \/ c.data[i].values[k] = Gap

\* the "buddy_check" and "sct" arms: the flags, or the fault
SpatialArm(c, env) ==
    IF Len(c.data) = 0 THEN [kind |-> "Panic", err |-> "", flags |-> <<>>]
    ELSE
    LET series_len == Len(c.data[1].values)
    IN  IF series_len > 0 /\ RowHasGap(c, 1)
           THEN [kind |-> "Panic", err |-> "", flags |-> <<>>]
        ELSE IF series_len > 0 /\ env.kernel # "ok"
           THEN [kind |-> "Err", err |-> KernelErr(env), flags |-> <<>>]
        ELSE IF \E k \in 1..series_len : RowHasGap(c, k)
           THEN [kind |-> "Panic", err |-> "", flags |-> <<>>]
        ELSE [kind |-> "Ok", err |-> "",
              flags |-> [i \in 1..Len(c.data) |->
                  [tag |-> c.data[i].tag,
                   values |-> [k \in 1..series_len |-> "Pass"]]]]

\* str::starts_with("test") over the names in use
TestNames == {"test", "test1", "test2", "test3", "test4", "test5", "test6"}
starts_with_test(name) == name \in TestNames

\* mutant: the fallback arm accepts every name
DefaultArmLenient(test) ==
    [kind |-> "Ok", err |-> "",
     flags |-> <<[tag |-> "test", values |-> <<"Inconclusive">>]>>]

\* the fallback arm, used for integration testing
DefaultArm(test) ==
    IF starts_with_test(test)
    THEN [kind |-> "Ok", err |-> "",
          flags |-> <<[tag |-> "test", values |-> <<"Inconclusive">>]>>]
    ELSE [kind |-> "Err", err |-> "InvalidTestName", flags |-> <<>>]

\* the time DateRule::new(start_time, period) yields at position k (from 0)
DateRuleAt(c, k) == c.start_time + k * c.period

\* flags zipped with the date rule, one TestResult per flag
SeriesResults(c, series) ==
    [k \in 1..Len(series.values) |->
        [time |-> DateRuleAt(c, k - 1), identifier |-> series.tag,
         flag |-> series.values[k]]]

RECURSIVE FlatMapResults(_, _)
FlatMapResults(c, flags) ==
    IF flags = <<>> THEN <<>>
    ELSE SeriesResults(c, Head(flags)) \o FlatMapResults(c, Tail(flags))

run_test(test, c, env) ==
    LET arm == CASE test = "dip_check" -> SeriesArm(c, DipLeadingPerRun, env)
                 [] test = "step_check" -> SeriesArm(c, StepLeadingPerRun, env)
                 [] test \in {"buddy_check", "sct"} -> SpatialArm(c, env)
                 [] OTHER -> DefaultArm(test)
    IN  CASE arm.kind = "Panic" -> HarnessPanic
          [] arm.kind = "Err" ->
                HarnessErr(arm.err, IF arm.err = "InvalidTestName" THEN test ELSE "")
          [] OTHER -> HarnessOk(test, arm.flags, FlatMapResults(c, arm.flags))

\* kernels of the check kinds that have no arm of their own in run_test:
\* one flag per payload observation of every station
PayloadArm(c, env) ==
    LET payload(i) == Len(c.data[i].values) - c.num_leading_points
                          - c.num_trailing_points
    IN  IF env.kernel # "ok" \/ \E i \in 1..Len(c.data) : payload(i) < 0
        THEN [kind |-> "Err",
              err |-> IF env.kernel = "unknown_flag" THEN "UnknownFlag" ELSE "FailedTest",
              flags |-> <<>>]
        ELSE [kind |-> "Ok", err |-> "",
              flags |-> [i \in 1..Len(c.data) |->
                  [tag |-> c.data[i].tag,
                   values |-> [k \in 1..payload(i) |-> "Pass"]]]]

CheckResult(check, flags) == [check |-> check, results |-> flags]

NoCheckResult == CheckResult("", <<>>)

\* harness::run_check: dispatch on the step's check variant, the result wrapped
\* under the step's name
run_check(step, c, env) ==
    LET kind == step.check.kind
        arm == CASE kind = "StepCheck" -> SeriesArm(c, StepLeadingPerRun, env)
                 [] kind \in {"BuddyCheck", "Sct"} -> SpatialArm(c, env)
                 [] kind \in {"SpecialValueCheck", "RangeCheck", "SpikeCheck",
                              "FlatlineCheck"} -> PayloadArm(c, env)
                 [] OTHER -> DefaultArm(step.name)
    IN  [kind |-> arm.kind, err |-> arm.err,
         name |-> IF arm.err = "InvalidTestName" THEN step.name ELSE "",
         result |-> IF arm.kind = "Ok" THEN CheckResult(step.name, arm.flags)
                    ELSE NoCheckResult]

(***************************************************************************)
(* Inputs                                                                  *)
(***************************************************************************)
SeqsUpTo(S, n) == UNION {[1..k -> S] : k \in 0..n}

StepPool == {PipelineStep("step_check", "StepCheck", 0),
             PipelineStep("spike_check", "SpikeCheck", 0),
             PipelineStep("flatline_check", "FlatlineCheck", FlatlineMax),
             PipelineStep("test1", "Dummy", 0),
             PipelineStep("test2", "Dummy", 0),
             PipelineStep("bogus", "Dummy", 0)}

StepSeqs == SeqsUpTo(StepPool, MaxSteps)

\* pipelines read by load_pipelines, and pipelines an embedder builds itself
\* (the fields of Pipeline are public; toml::from_str leaves the counts at 0)
LoadedPipelines == {load_pipelines(s) : s \in StepSeqs}
HandBuiltPipelines ==
    {Pipeline(s, l, t) : s \in StepSeqs, l \in 0..MaxPad, t \in 0..MaxPad}

\* the tables Scheduler::new is given: the one of construct_hardcoded_pipeline,
\* or one pipeline file TA_PT1H
\* pipeline files with a step of a check kind the harness has no provider for
UnimplementedPipelines ==
    {load_pipelines(<<PipelineStep("range_check_dynamic", "RangeCheckDynamic", 0)>>),
     load_pipelines(<<PipelineStep("test1", "Dummy", 0),
                      PipelineStep("model_consistency_check", "ModelConsistencyCheck", 0)>>)}

PipelineTables ==
    {[n \in {"hardcoded"} |-> construct_hardcoded_pipeline]}
    \cup {[n \in {"TA_PT1H"} |-> p] :
            p \in LoadedPipelines \cup HandBuiltPipelines \cup UnimplementedPipelines}

PipelineArgs == {"hardcoded", "TA_PT1H"}
DataSourceArgs == {"test", "frost", "nosuch"}
SpaceSpecs == {SpaceOne("single"), SpaceOne("series"), SpaceOne("18700"), SpaceAll}
TimeSpecs == {TimeSpec(0, 0, PeriodSeconds), TimeSpec(600, 1200, PeriodSeconds)}
ExtraSpecs == {NoValue, "air_temperature"}

Requests ==
    [data_source : DataSourceArgs, backing_sources : {<<>>}, time_spec : TimeSpecs,
     space_spec : SpaceSpecs, test_pipeline : PipelineArgs, extra_spec : ExtraSpecs]

NoRequest ==
    [data_source |-> "", backing_sources |-> <<>>, time_spec |-> TimeSpec(0, 0, 0),
     space_spec |-> SpaceAll, test_pipeline |-> "", extra_spec |-> NoValue]

NoPipeline == Pipeline(<<>>, 0, 0)

Outcome(kind, err, name, res) == [kind |-> kind, err |-> err, name |-> name, results |-> res]
NoOutcome == Outcome("None", "", "", <<>>)

(***************************************************************************)
(* Scheduler (scheduler.rs)                                                *)
(***************************************************************************)
\* mutant: an unknown name falls back to some pipeline of the table
ResolvePipelineFallback(table, name) ==
    [found |-> TRUE,
     p |-> IF name \in DOMAIN table THEN table[name]
           ELSE table[CHOOSE n \in DOMAIN table : TRUE]]

\* self.pipelines.get(test_pipeline)
ResolvePipeline(table, name) ==
    IF name \in DOMAIN table THEN [found |-> TRUE, p |-> table[name]]
    ELSE [found |-> FALSE, p |-> NoPipeline]

\* mutant: the connectors named in backing_sources are fetched from as well
validate_direct_fetch_backing(r, p) ==
    LET sw == DataSwitch_fetch_data(r.data_source, r.space_spec, r.time_spec,
                                    p.num_leading_required, p.num_trailing_required,
                                    r.extra_spec)
    IN  [sw EXCEPT !.calls =
            @ \o [n \in 1..Len(r.backing_sources) |->
                    ConnectorCall(r.backing_sources[n], r.space_spec, r.time_spec,
                                  p.num_leading_required, p.num_trailing_required,
                                  r.extra_spec)]]

\* mutant: leading and trailing counts swapped
validate_direct_fetch_swapped(r, p) ==
    DataSwitch_fetch_data(r.data_source, r.space_spec, r.time_spec,
                          p.num_trailing_required, p.num_leading_required,
                          r.extra_spec)

\* the call validate_direct makes on the data switch
validate_direct_fetch(r, p) ==
    DataSwitch_fetch_data(r.data_source, r.space_spec, r.time_spec,
                          p.num_leading_required, p.num_trailing_required,
                          r.extra_spec)

\* validate_direct, up to the await of the connector's fetch
validate_direct(r) ==
    /\ pc = "Idle"
    /\ entry' = "validate_direct"
    /\ req' = r
    /\ LET res == ResolvePipeline(pipelines, r.test_pipeline)
           sw == validate_direct_fetch(r, res.p)
       IN  IF ~res.found
           THEN /\ outcome' = Outcome("InvalidArg", "pipeline not recognised", "", <<>>)
                /\ pc' = "Err"
                /\ UNCHANGED <<pipeline, switch_log, fetch_log>>
           ELSE /\ pipeline' = res.p
                /\ switch_log' = Append(switch_log, r.data_source)
                /\ fetch_log' = fetch_log \o sw.calls
                /\ IF sw.found
                   THEN pc' = "Fetching" /\ UNCHANGED outcome
                   ELSE /\ outcome' = Outcome("DataSwitch", sw.err, r.data_source, <<>>)
                        /\ pc' = "Err"
    /\ UNCHANGED <<pipelines, fetch_ret, cache, idx, inflight, results, step_log>>
    /\ UNCHANGED harnessVars
    /\ UNCHANGED callVars
    /\ UNCHANGED <<registryVars, srv, dur>>

\* mutant: a failed fetch is tried again
fetch_returns_retry ==
    /\ pc = "Fetching"
    /\ LET call == fetch_log[Len(fetch_log)]
       IN  \E ret \in Connector_fetch_data(call.connector, call.space_spec, call.time_spec,
                                           call.num_leading_points,
                                           call.num_trailing_points, call.extra_spec) :
              /\ fetch_ret' = Append(fetch_ret, ret)
              /\ CASE ret.kind = "Ok" ->
                        /\ cache' = ret.cache
                        /\ pc' = "Running"
                        /\ UNCHANGED <<outcome, fetch_log>>
                   [] ret.kind = "Err" ->
                        /\ fetch_log' = Append(fetch_log, call)
                        /\ UNCHANGED <<outcome, pc, cache>>
                   [] OTHER ->
                        /\ outcome' = Outcome("Panic", "", "", <<>>)
                        /\ pc' = "Panic"
                        /\ UNCHANGED <<cache, fetch_log>>
    /\ UNCHANGED <<pipelines, entry, req, pipeline, switch_log, idx, inflight,
                   results, step_log>>
    /\ UNCHANGED harnessVars
    /\ UNCHANGED callVars
    /\ UNCHANGED <<registryVars, srv, dur>>

\* the connector's fetch returns: validate_direct goes on to schedule_tests, or
\* returns the data switch's error
fetch_returns ==
    /\ pc = "Fetching"
    /\ LET call == fetch_log[Len(fetch_log)]
       IN  \E ret \in Connector_fetch_data(call.connector, call.space_spec, call.time_spec,
                                           call.num_leading_points,
                                           call.num_trailing_points, call.extra_spec) :
              /\ fetch_ret' = Append(fetch_ret, ret)
              /\ CASE ret.kind = "Ok" ->
                        /\ cache' = ret.cache
                        /\ pc' = "Running"
                        /\ UNCHANGED outcome
                   [] ret.kind = "Err" ->
                        /\ outcome' = Outcome("DataSwitch", ret.err, "", <<>>)
                        /\ pc' = "Err"
                        /\ UNCHANGED cache
                   [] OTHER ->
                        /\ outcome' = Outcome("Panic", "", "", <<>>)
                        /\ pc' = "Panic"
                        /\ UNCHANGED cache
    /\ UNCHANGED <<pipelines, entry, req, pipeline, switch_log, fetch_log, idx, inflight,
                   results, step_log>>
    /\ UNCHANGED harnessVars
    /\ UNCHANGED callVars
    /\ UNCHANGED <<registryVars, srv, dur>>

\* caches an embedder hands to schedule_tests
ScheduleCaches(p) ==
    {DataCache(<<Timeseries("test", DataLenSingle)>>, 0, PeriodSeconds,
               l, p.num_trailing_required) : l \in {0, p.num_leading_required}}

\* Scheduler::schedule_tests called directly with a pipeline and a cache
schedule_tests(p, c) ==
    /\ pc = "Idle"
    /\ entry' = "schedule_tests"
    /\ pipeline' = p
    /\ cache' = c
    /\ pc' = "Running"
    /\ UNCHANGED <<pipelines, req, switch_log, fetch_log, fetch_ret, idx, inflight,
                   results, step_log, outcome>>
    /\ UNCHANGED harnessVars
    /\ UNCHANGED callVars
    /\ UNCHANGED <<registryVars, srv, dur>>

StepEvent(ev, i, kind, err, c) ==
    [ev |-> ev, i |-> i, kind |-> kind, err |-> err, cache |-> c]

\* mutant: the iterator may skip ahead, as an unordered collection of steps would
NextToRunAnyOrder(i, running, n) == IF running = {} /\ i <= n THEN i..n ELSE {}

\* mutant: the next step is handed to the harness while one is still running
NextToRunEager(i, running, n) ==
    IF i + Cardinality(running) <= n THEN {i + Cardinality(running)} ELSE {}

\* the steps the iterator of schedule_tests may hand to the harness now
NextToRun(i, running, n) == IF running = {} /\ i <= n THEN {i} ELSE {}

\* .map(|step| harness::run_check(step, &data)): the harness run of a step starts
step_start ==
    /\ pc = "Running"
    /\ \E i \in NextToRun(idx, inflight, Len(pipeline.steps)) :
          /\ inflight' = inflight \cup {i}
          /\ step_log' = Append(step_log, StepEvent("start", i, "", "", cache))
    /\ UNCHANGED <<pipelines, pc, entry, req, pipeline, switch_log, fetch_log, fetch_ret,
                   cache, idx, results, outcome>>
    /\ UNCHANGED harnessVars
    /\ UNCHANGED callVars
    /\ UNCHANGED <<registryVars, srv, dur>>

\* mutant: results collected newest first
collect_ok_reversed(acc, r) == <<r>> \o acc

\* mutant: the results collected before the failing step are returned with the error
collect_err_partial(acc, e) == Outcome("Runner", e.err, e.name, acc)

\* collect::<Result<Vec<_>, _>>() taking an Ok item
collect_ok(acc, r) == Append(acc, r)

\* collect::<Result<Vec<_>, _>>() taking an Err item: the error alone is returned
collect_err(acc, e) == Outcome("Runner", e.err, e.name, <<>>)

\* the harness run of a step returns
step_finish ==
    /\ pc = "Running"
    /\ inflight # {}
    /\ \E i \in inflight, env \in HarnessEnvs :
          LET r == run_check(pipeline.steps[i], cache, env)
          IN  /\ inflight' = inflight \ {i}
              /\ step_log' = Append(step_log, StepEvent("end", i, r.kind, r.err, NoCache))
              /\ CASE r.kind = "Ok" ->
                        /\ results' = collect_ok(results, r.result)
                        /\ idx' = i + 1
                        /\ UNCHANGED <<pc, outcome>>
                   [] r.kind = "Err" ->
                        /\ outcome' = collect_err(results, r)
                        /\ pc' = "Err"
                        /\ UNCHANGED <<results, idx>>
                   [] OTHER ->
                        /\ outcome' = Outcome("Panic", "", "", <<>>)
                        /\ pc' = "Panic"
                        /\ UNCHANGED <<results, idx>>
    /\ UNCHANGED <<pipelines, entry, req, pipeline, switch_log, fetch_log, fetch_ret, cache>>
    /\ UNCHANGED harnessVars
    /\ UNCHANGED callVars
    /\ UNCHANGED <<registryVars, srv, dur>>

\* the iterator is exhausted: Ok(results)
collect_done ==
    /\ pc = "Running"
    /\ inflight = {}
    /\ idx > Len(pipeline.steps)
    /\ outcome' = Outcome("Ok", "", "", results)
    /\ pc' = "Done"
    /\ UNCHANGED <<pipelines, entry, req, pipeline, switch_log, fetch_log, fetch_ret,
                   cache, idx, inflight, results, step_log>>
    /\ UNCHANGED harnessVars
    /\ UNCHANGED callVars
    /\ UNCHANGED <<registryVars, srv, dur>>

\* the locals of one call on the Scheduler
Call(cpc, centry, r, p, flog, fret, c, i, running, res, out) ==
    [pc |-> cpc, entry |-> centry, req |-> r, pipeline |-> p, fetch_log |-> flog,
     fetch_ret |-> fret, cache |-> c, idx |-> i, inflight |-> running,
     results |-> res, outcome |-> out]

IdleCall == Call("Idle", "", NoRequest, NoPipeline, <<>>, <<>>, NoCache, 1, {}, <<>>, NoOutcome)

CallIds == 1..NumCalls

NoCalls == [k \in CallIds |-> IdleCall]

\* the kernels and the build are the same code for every call; the backend a
\* connector reads is up or down
Worlds == [kernel : KernelOutcomes, overflow_checks : BOOLEAN, connector_up : BOOLEAN]

NoWorld == [kernel |-> "ok", overflow_checks |-> FALSE, connector_up |-> TRUE]

\* no DataSwitch constructed yet
NoSwitch == [built |-> FALSE, kind |-> "", sources |-> <<>>]

\* RoveService before a request
IdleServer ==
    [pc |-> "Idle", series_id |-> [source |-> "", id |-> ""], tests |-> <<>>,
     dag |-> [nodes |-> {}, children |-> <<>>],
     cause |-> "", status |-> "", fetched |-> 0, cache |-> NoCache, subdag |-> {},
     sub |-> [elems |-> <<>>, edges |-> <<>>],
     running |-> <<>>, started |-> <<>>, completed |-> <<>>, outcomes |-> <<>>,
     children_completed_map |-> <<>>, sent |-> <<>>,
     capacity |-> <<>>, rx |-> "none", received |-> 0, stream |-> "None"]

\* parse_duration not called yet
IdleDuration ==
    [pc |-> "Idle", input |-> <<>>, from |-> <<>>,
     out |-> [kind |-> "None", months |-> 0, seconds |-> 0, err |-> ""]]

HarnessNotRun == [kind |-> "NotRun", err |-> "", name |-> "", test |-> "",
                  flags |-> <<>>, results |-> <<>>]

Init ==
    /\ pipelines \in PipelineTables
    /\ pc = "Idle"
    /\ entry = ""
    /\ req = NoRequest
    /\ pipeline = NoPipeline
    /\ switch_log = <<>>
    /\ fetch_log = <<>>
    /\ fetch_ret = <<>>
    /\ cache = NoCache
    /\ idx = 1
    /\ inflight = {}
    /\ results = <<>>
    /\ step_log = <<>>
    /\ outcome = NoOutcome
    /\ h_test = ""
    /\ h_cache = NoCache
    /\ h_out = HarnessNotRun
    /\ entries = <<>>
    /\ switch = NoSwitch
    /\ routed = <<>>
    /\ srv = IdleServer
    /\ dur = IdleDuration
    /\ calls = NoCalls
    /\ world = NoWorld

Next ==
    \/ \E r \in Requests : validate_direct(r)
    \/ fetch_returns
    \/ \E n \in DOMAIN pipelines : \E c \in ScheduleCaches(pipelines[n]) :
          schedule_tests(pipelines[n], c)
    \/ step_start
    \/ step_finish
    \/ collect_done

Spec == Init /\ [][Next]_vars

(***************************************************************************)
(* Several calls on one Scheduler: each call is a validate_direct or a     *)
(* schedule_tests with locals of its own; the steps of the calls interleave *)
(***************************************************************************)
CallTables ==
    {[n \in {"TA_PT1H"} |-> load_pipelines(s)] :
        s \in {<<PipelineStep("step_check", "StepCheck", 0), PipelineStep("test1", "Dummy", 0)>>,
               <<PipelineStep("test1", "Dummy", 0), PipelineStep("test2", "Dummy", 0)>>,
               <<PipelineStep("test1", "Dummy", 0), PipelineStep("bogus", "Dummy", 0)>>}}

BackingSourceArgs == {<<>>, <<"frost">>}

CallRequests ==
    [data_source : DataSourceArgs, backing_sources : BackingSourceArgs,
     time_spec : {TimeSpec(0, 0, PeriodSeconds)}, space_spec : {SpaceOne("single")},
     test_pipeline : PipelineArgs, extra_spec : {"air_temperature"}]

\* a deterministic connector: what its fetch returns is fixed by the call and by
\* the state of its backend
ConnectorReturn(call, w) ==
    LET rets == Connector_fetch_data(call.connector, call.space_spec, call.time_spec,
                                     call.num_leading_points, call.num_trailing_points,
                                     call.extra_spec)
    IN  IF Cardinality(rets) = 1 THEN CHOOSE ret \in rets : TRUE
        ELSE CHOOSE ret \in rets : (ret.kind = "Ok") = w.connector_up

\* mutant: the cache is handed on with its padding counts cleared
validate_direct_schedule_unpadded(p, data) ==
    [pipeline |-> p,
     cache |-> [data EXCEPT !.num_leading_points = 0, !.num_trailing_points = 0]]

\* Scheduler::schedule_tests(pipeline, data), the last line of validate_direct
validate_direct_schedule(p, data) == [pipeline |-> p, cache |-> data]

\* mutant: the cache is a field of the Scheduler, shared by the calls
StepCacheShared(cs, k) == cs[1].cache

\* the cache the steps of call k run against: the `data` moved into schedule_tests
StepCache(cs, k) == cs[k].cache

\* calls are started in the order of their ids
MayStart(k) == calls[k].pc = "Idle" /\ (IF k = 1 THEN TRUE ELSE calls[k - 1].pc # "Idle")

call_validate_direct(k, r) ==
    /\ MayStart(k)
    /\ LET res == ResolvePipeline(pipelines, r.test_pipeline)
           sw == validate_direct_fetch(r, res.p)
           me == [calls[k] EXCEPT !.entry = "validate_direct", !.req = r]
       IN  calls' = [calls EXCEPT ![k] =
               IF ~res.found
               THEN [me EXCEPT !.pc = "Err",
                               !.outcome = Outcome("InvalidArg", "pipeline not recognised",
                                                   "", <<>>)]
               ELSE IF ~sw.found
               THEN [me EXCEPT !.pc = "Err", !.pipeline = res.p,
                               !.outcome = Outcome("DataSwitch", sw.err, r.data_source, <<>>)]
               ELSE [me EXCEPT !.pc = "Fetching", !.pipeline = res.p,
                               !.fetch_log = sw.calls]]
    /\ UNCHANGED <<world, schedVars, harnessVars, registryVars, srv, dur>>

call_fetch_returns(k) ==
    /\ calls[k].pc = "Fetching"
    /\ LET me == calls[k]
           ret == ConnectorReturn(me.fetch_log[Len(me.fetch_log)], world)
           got == [me EXCEPT !.fetch_ret = Append(me.fetch_ret, ret)]
           args == validate_direct_schedule(me.pipeline, ret.cache)
       IN  calls' = [calls EXCEPT ![k] =
               CASE ret.kind = "Ok" ->
                       [got EXCEPT !.pc = "Running", !.pipeline = args.pipeline,
                                   !.cache = args.cache]
                 [] ret.kind = "Err" ->
                       [got EXCEPT !.pc = "Err",
                                   !.outcome = Outcome("DataSwitch", ret.err, "", <<>>)]
                 [] OTHER ->
                       [got EXCEPT !.pc = "Panic", !.outcome = Outcome("Panic", "", "", <<>>)]]
    /\ UNCHANGED <<world, schedVars, harnessVars, registryVars, srv, dur>>

\* caches handed to schedule_tests: an embedder's own, or one a fetch returned
CallScheduleCaches(p) ==
    ScheduleCaches(p)
    \cup {calls[j].fetch_ret[1].cache :
            j \in {i \in CallIds : calls[i].fetch_ret # <<>> /\ calls[i].fetch_ret[1].kind = "Ok"}}

call_schedule_tests(k, p, c) ==
    /\ MayStart(k)
    /\ calls' = [calls EXCEPT ![k] =
           [@ EXCEPT !.entry = "schedule_tests", !.pipeline = p, !.cache = c,
                     !.pc = "Running"]]
    /\ UNCHANGED <<world, schedVars, harnessVars, registryVars, srv, dur>>

\* one turn of .map(|step| harness::run_check(step, &data)): run_check is called and
\* returns without yielding, so a step of a call is one atomic action
call_run_step(k) ==
    /\ calls[k].pc = "Running"
    /\ \E i \in NextToRun(calls[k].idx, calls[k].inflight, Len(calls[k].pipeline.steps)) :
          LET me == calls[k]
              r == run_check(me.pipeline.steps[i], StepCache(calls, k), world)
          IN  calls' = [calls EXCEPT ![k] =
                  CASE r.kind = "Ok" ->
                          [me EXCEPT !.results = collect_ok(me.results, r.result),
                                     !.idx = i + 1]
                    [] r.kind = "Err" ->
                          [me EXCEPT !.pc = "Err", !.outcome = collect_err(me.results, r)]
                    [] OTHER ->
                          [me EXCEPT !.pc = "Panic",
                                     !.outcome = Outcome("Panic", "", "", <<>>)]]
    /\ UNCHANGED <<world, schedVars, harnessVars, registryVars, srv, dur>>

call_collect_done(k) ==
    /\ calls[k].pc = "Running"
    /\ calls[k].inflight = {}
    /\ calls[k].idx > Len(calls[k].pipeline.steps)
    /\ calls' = [calls EXCEPT ![k] =
           [@ EXCEPT !.pc = "Done", !.outcome = Outcome("Ok", "", "", calls[k].results)]]
    /\ UNCHANGED <<world, schedVars, harnessVars, registryVars, srv, dur>>

InitCalls ==
    /\ pipelines \in CallTables
    /\ pc = "Idle"
    /\ entry = ""
    /\ req = NoRequest
    /\ pipeline = NoPipeline
    /\ switch_log = <<>>
    /\ fetch_log = <<>>
    /\ fetch_ret = <<>>
    /\ cache = NoCache
    /\ idx = 1
    /\ inflight = {}
    /\ results = <<>>
    /\ step_log = <<>>
    /\ outcome = NoOutcome
    /\ h_test = ""
    /\ h_cache = NoCache
    /\ h_out = HarnessNotRun
    /\ entries = <<>>
    /\ switch = NoSwitch
    /\ routed = <<>>
    /\ srv = IdleServer
    /\ dur = IdleDuration
    /\ calls = NoCalls
    /\ world \in Worlds

NextCalls ==
    \E k \in CallIds :
        \/ \E r \in CallRequests : call_validate_direct(k, r)
        \/ call_fetch_returns(k)
        \/ \E n \in DOMAIN pipelines : \E c \in CallScheduleCaches(pipelines[n]) :
              call_schedule_tests(k, pipelines[n], c)
        \/ call_run_step(k)
        \/ call_collect_done(k)

SpecCalls == InitCalls /\ [][NextCalls]_vars

(***************************************************************************)
(* Construction of the DataSwitch registry (data_switch.rs, main.rs)        *)
(***************************************************************************)
RegistryNames == {"frost", "lustre_netatmo"}
RegistryConnectors == {"Frost", "LustreNetatmo", "TestDataSource"}

RegistryEntries ==
    SeqsUpTo([name : RegistryNames, connector : RegistryConnectors], MaxEntries)

\* HashMap::from([(name, connector), ...]): the pairs are inserted in order, an
\* insert under a name already present replaces the connector held for it
RECURSIVE HashMap_from(_)
HashMap_from(es) ==
    IF es = <<>> THEN <<>>
    ELSE LET last == es[Len(es)]
             m == HashMap_from(SubSeq(es, 1, Len(es) - 1))
         IN  [n \in DOMAIN m \cup {last.name} |->
                 IF n = last.name THEN last.connector ELSE m[n]]

\* DataSwitch::new: Self { sources }
DataSwitch_new(srcs) == [built |-> TRUE, kind |-> "Ok", sources |-> srcs]

construct_switch ==
    /\ ~switch.built
    /\ switch' = DataSwitch_new(HashMap_from(entries))
    /\ UNCHANGED <<entries, routed, srv, dur>>
    /\ UNCHANGED <<schedVars, harnessVars, callVars>>

\* self.sources.get(data_source_id) of DataSwitch::fetch_data
switch_get(id) ==
    /\ switch.built
    /\ switch.kind = "Ok"
    /\ routed = <<>>
    /\ routed' = Append(routed, [id |-> id,
                                 connector |-> IF id \in DOMAIN switch.sources
                                               THEN switch.sources[id]
                                               ELSE "InvalidDataSource"])
    /\ UNCHANGED <<entries, switch, srv, dur>>
    /\ UNCHANGED <<schedVars, harnessVars, callVars>>

InitRegistry ==
    /\ pipelines = [n \in {"hardcoded"} |-> construct_hardcoded_pipeline]
    /\ pc = "Idle"
    /\ entry = ""
    /\ req = NoRequest
    /\ pipeline = NoPipeline
    /\ switch_log = <<>>
    /\ fetch_log = <<>>
    /\ fetch_ret = <<>>
    /\ cache = NoCache
    /\ idx = 1
    /\ inflight = {}
    /\ results = <<>>
    /\ step_log = <<>>
    /\ outcome = NoOutcome
    /\ h_test = ""
    /\ h_cache = NoCache
    /\ h_out = HarnessNotRun
    /\ calls = NoCalls
    /\ world = NoWorld
    /\ entries \in RegistryEntries
    /\ switch = NoSwitch
    /\ routed = <<>>
    /\ srv = IdleServer
    /\ dur = IdleDuration

NextRegistry ==
    \/ construct_switch
    \/ \E id \in RegistryNames : switch_get(id)

SpecRegistry == InitRegistry /\ [][NextRegistry]_vars

(***************************************************************************)
(* RoveService (server.rs): one validate_series request against a DAG of    *)
(* tests, its responses streamed through a channel                          *)
(***************************************************************************)
Dag(nodes, children) == [nodes |-> nodes, children |-> children]

construct_fake_dag ==
    Dag({"test1", "test2", "test3", "test4", "test5", "test6"},
        [n \in {"test1", "test2", "test3", "test4", "test5", "test6"} |->
            CASE n = "test1" -> {"test2", "test3"}
              [] n = "test2" -> {"test4"}
              [] n = "test3" -> {"test5"}
              [] n \in {"test4", "test5"} -> {"test6"}
              [] OTHER -> {}])

\* a DAG of real checks: dip_check runs before step_check
ChecksDag ==
    Dag({"dip_check", "step_check"},
        [n \in {"dip_check", "step_check"} |->
            IF n = "step_check" THEN {"dip_check"} ELSE {}])

\* a service DAG whose checks do not depend on each other: both are leaves, as
\* the validation of integration_test_hardcoded_dag requests them
FlatChecksDag ==
    Dag({"dip_check", "step_check"}, [n \in {"dip_check", "step_check"} |-> {}])

ServiceDags == {construct_fake_dag, ChecksDag, FlatChecksDag}

\* NodeId of the nodes of the service DAGs: the order of their add_node calls
InsertionOrder ==
    <<"test6", "test4", "test5", "test2", "test3", "test1", "dip_check", "step_check">>

NodeIdOf(n) == CHOOSE k \in 1..Len(InsertionOrder) : InsertionOrder[k] = n

\* iteration over a node's children, in NodeId order
RECURSIVE ChildrenIter(_)
ChildrenIter(S) ==
    IF S = {} THEN <<>>
    ELSE LET first == CHOOSE n \in S : \A o \in S : NodeIdOf(n) <= NodeIdOf(o)
         IN  <<first>> \o ChildrenIter(S \ {first})

\* the subdag under construction: its nodes' elements by NodeId, the add_edge
\* calls made on it, and nodes_visited (0: not visited)
NewSubdag(dag) == [elems |-> <<>>, edges |-> <<>>, nodes_visited |-> [n \in dag.nodes |-> 0]]

\* subdag.add_node(elem) followed by nodes_visited.insert(index, new_index)
add_node_visited(st, n) ==
    [st EXCEPT !.elems = Append(@, n), !.nodes_visited[n] = Len(st.elems) + 1]

\* subdag.add_edge(parent, child)
add_edge(st, parent, child) == [st EXCEPT !.edges = Append(@, <<parent, child>>)]

\* mutant: no node counts as visited
contains_key_never(st, n) == FALSE

\* nodes_visited.contains_key(index), nodes_visited.get(child_index).is_some()
contains_key(st, n) == st.nodes_visited[n] # 0

\* the loop of add_descendants over the children of curr_index
RECURSIVE add_children(_, _, _, _)
RECURSIVE add_descendants(_, _, _)
add_children(dag, st, curr_index, children) ==
    IF children = <<>> THEN st
    ELSE LET child_index == Head(children)
         IN  IF contains_key(st, child_index)
             THEN add_children(dag,
                               add_edge(st, st.nodes_visited[curr_index],
                                        st.nodes_visited[child_index]),
                               curr_index, Tail(children))
             ELSE LET added == add_node_visited(st, child_index)
                      linked == add_edge(added, st.nodes_visited[curr_index],
                                         added.nodes_visited[child_index])
                  IN  add_children(dag, add_descendants(dag, linked, child_index),
                                   curr_index, Tail(children))

\* add_descendants of construct_subdag
add_descendants(dag, st, curr_index) ==
    add_children(dag, st, curr_index, ChildrenIter(dag.children[curr_index]))

\* the loop of construct_subdag over required_nodes
RECURSIVE add_required(_, _, _)
add_required(dag, st, required_nodes) ==
    IF required_nodes = <<>> THEN [kind |-> "Ok", err |-> "", st |-> st]
    ELSE LET required == Head(required_nodes)
         IN  IF required \notin dag.nodes
             THEN [kind |-> "Err", err |-> "TestNotInDag", st |-> NewSubdag(dag)]
             ELSE IF contains_key(st, required)
             THEN add_required(dag, st, Tail(required_nodes))
             ELSE add_required(dag,
                               add_descendants(dag, add_node_visited(st, required),
                                               required),
                               Tail(required_nodes))

\* RoveService::construct_subdag: the required nodes and all their descendants,
\* or TestNotInDag for the first required test the DAG does not hold
construct_subdag(dag, required_nodes) ==
    LET r == add_required(dag, NewSubdag(dag), required_nodes)
    IN  [kind |-> r.kind, err |-> r.err,
         nodes |-> {r.st.elems[k] : k \in 1..Len(r.st.elems)},
         elems |-> r.st.elems, edges |-> r.st.edges]

\* a subdag's node structure: children, parents and leaves by NodeId
SubChildren(sub, i) == {e[2] : e \in {sub.edges[k] : k \in {l \in 1..Len(sub.edges) : sub.edges[l][1] = i}}}
SubParents(sub, i) == {e[1] : e \in {sub.edges[k] : k \in {l \in 1..Len(sub.edges) : sub.edges[l][2] = i}}}
SubLeaves(sub) == {i \in 1..Len(sub.elems) : SubChildren(sub, i) = {}}

Leaves(dag, nodes) == {n \in nodes : dag.children[n] = {}}
Parents(dag, nodes, n) == {m \in nodes : n \in dag.children[m]}

SeriesIds == {[source |-> "test", id |-> "single"], [source |-> "frost", id |-> "18700"],
              [source |-> "nosuch", id |-> "single"]}

ServiceTestNames == {"test1", "test4", "step_check", "dip_check", "nope"}

\* self.data_switch.get_series_data(series_id, timerange, 2): the source is looked
\* up in the registry and its connector asked for the series with 2 leading points
get_series_data(series_id) ==
    IF series_id.source \notin sources THEN {FetchErr("InvalidDataSource")}
    ELSE UNION {Connector_fetch_data(series_id.source, SpaceOne(series_id.id),
                                     TimeSpec(0, 0, PeriodSeconds), 2, 0, x) :
                    x \in ExtraSpecs}

\* RoveService::new(dag, data_switch)
RoveService_new(dag) == [IdleServer EXCEPT !.dag = dag]

Response(kind, test, code, cause) ==
    [kind |-> kind, test |-> test, status |-> code, cause |-> cause]

\* mutant: an empty test list is let through
is_empty_never(tests) == FALSE

\* tests.is_empty()
is_empty(tests) == tests = <<>>

\* validate_series_direct up to the await of the data switch
validate_series_direct(series_id, tests) ==
    /\ srv.pc = "Idle"
    /\ srv' = IF is_empty(tests)
              THEN [srv EXCEPT !.pc = "Returned", !.series_id = series_id, !.tests = tests,
                               !.status = "InvalidArgument", !.cause = "EmptyTests"]
              ELSE [srv EXCEPT !.pc = "Fetching", !.series_id = series_id, !.tests = tests]
    /\ UNCHANGED <<schedVars, harnessVars, callVars, registryVars, dur>>

\* subdag.index_lookup.get(name): the NodeId the subdag keeps for an element
index_lookup(sub, name) ==
    IF \E k \in 1..Len(sub.elems) : sub.elems[k] = name
    THEN CHOOSE k \in 1..Len(sub.elems) :
            sub.elems[k] = name /\ \A l \in (k + 1)..Len(sub.elems) : sub.elems[l] # name
    ELSE 0

\* test_futures.push for each node of a set, in NodeId order: test_futures holds
\* the futures pushed and not yet completed
RECURSIVE PushAll(_, _)
PushAll(log, S) ==
    IF S = {} THEN log
    ELSE LET first == CHOOSE i \in S : \A j \in S : i <= j
         IN  PushAll(Append(log, first), S \ {first})

\* the data switch returns: the error is mapped to a Status, or the subdag is
\* constructed and schedule_tests_series opens the channel with
\* channel(subdag.nodes.len()), which panics on 0, and pushes the leaves
get_series_data_returns ==
    /\ srv.pc = "Fetching"
    /\ \E ret \in get_series_data(srv.series_id) :
          LET got == [srv EXCEPT !.fetched = @ + 1]
              sub == construct_subdag(srv.dag, srv.tests)
          IN  srv' =
                CASE ret.kind = "Err" ->
                        [got EXCEPT !.pc = "Returned", !.status = "NotFound",
                                    !.cause = ret.err]
                  [] ret.kind = "Panic" ->
                        [got EXCEPT !.pc = "Panic"]
                  [] ret.kind = "Ok" /\ sub.kind = "Err" ->
                        [got EXCEPT !.pc = "Returned", !.status = "NotFound",
                                    !.cause = sub.err, !.cache = ret.cache]
                  [] ret.kind = "Ok" /\ sub.kind # "Err" /\ Len(sub.elems) = 0 ->
                        [got EXCEPT !.pc = "Panic", !.cache = ret.cache,
                                    !.capacity = <<Len(sub.elems)>>]
                  [] OTHER ->
                        [got EXCEPT !.pc = "Streaming", !.cache = ret.cache,
                                    !.capacity = <<Len(sub.elems)>>,
                                    !.subdag = sub.nodes,
                                    !.sub = [elems |-> sub.elems, edges |-> sub.edges],
                                    !.running = PushAll(<<>>, SubLeaves(sub)),
                                    !.started = PushAll(<<>>, SubLeaves(sub)),
                                    !.children_completed_map =
                                        [i \in 1..Len(sub.elems) |-> 0],
                                    !.rx = "open", !.stream = "Open"]
    /\ UNCHANGED <<schedVars, harnessVars, callVars, registryVars, dur>>

\* mutant: > in place of >=, no parent is ever pushed
ParentReadyStrict(sub, counts, parent_index) ==
    counts[parent_index] > Cardinality(SubChildren(sub, parent_index))

\* mutant: a parent is pushed as soon as one of its children has completed
ParentReadyEarly(sub, counts, parent_index) == counts[parent_index] >= 1

\* children_completed >= subdag.nodes.get(parent_index).children.len()
ParentReady(sub, counts, parent_index) ==
    counts[parent_index] >= Cardinality(SubChildren(sub, parent_index))

\* mutant: the result is treated as queued although the receiver is gone
SendFailsNever(rx) == FALSE

\* tx.send(..).await is Err: the receiver was dropped
SendFails(rx) == rx = "dropped"

\* mutant: the loop goes on to the next completed future after a failed run
ErrBreaksNever(res) == FALSE

\* match res { .. Err(_) => break }: a failed run ends the loop
ErrBreaks(res) == res.kind = "Err"

\* one turn of the loop of schedule_tests_series: a test future completes, its
\* result is sent, and on success the parents whose children have all completed
\* are pushed
test_future_completes ==
    /\ srv.pc = "Streaming"
    /\ \E k \in 1..Len(srv.running), env \in HarnessEnvs :
        \E res \in {run_test(srv.sub.elems[srv.running[k]], srv.cache, env)} :
        \E ps \in {SubParents(srv.sub, index_lookup(srv.sub, res.test))} :
          LET i == srv.running[k]
              completed_index == index_lookup(srv.sub, res.test)
              counts == [n \in 1..Len(srv.sub.elems) |->
                            IF n \in ps THEN srv.children_completed_map[n] + 1
                            ELSE srv.children_completed_map[n]]
              ready == {m \in ps : ParentReady(srv.sub, counts, m)}
              rest == SubSeq(srv.running, 1, k - 1)
                          \o SubSeq(srv.running, k + 1, Len(srv.running))
              left == PushAll(rest, ready)
          IN  srv' =
                CASE res.kind = "Panic" ->
                        [srv EXCEPT !.running = <<>>, !.pc = "Panic"]
                  [] res.kind # "Panic" /\ SendFails(srv.rx) ->
                        [srv EXCEPT !.running = <<>>, !.pc = "Stopped",
                                    !.completed = Append(@, i),
                                    !.outcomes = Append(@, res.kind)]
                  [] res.kind = "Err" /\ ~SendFails(srv.rx) ->
                        [srv EXCEPT !.sent = Append(@, Response("Err", "", "Aborted", res.err)),
                                    !.completed = Append(@, i),
                                    !.outcomes = Append(@, res.kind),
                                    !.running = IF ErrBreaks(res) THEN <<>> ELSE rest,
                                    !.pc = IF ErrBreaks(res) \/ rest = <<>>
                                           THEN "Closed" ELSE "Streaming"]
                  [] res.kind = "Ok" /\ ~SendFails(srv.rx) /\ completed_index = 0 ->
                        [srv EXCEPT !.sent = Append(@, Response("Ok", res.test, "", "")),
                                    !.completed = Append(@, i),
                                    !.outcomes = Append(@, res.kind),
                                    !.running = <<>>, !.pc = "Panic"]
                  [] OTHER ->
                        [srv EXCEPT !.sent = Append(@, Response("Ok", res.test, "", "")),
                                    !.completed = Append(@, i),
                                    !.outcomes = Append(@, res.kind),
                                    !.children_completed_map = counts,
                                    !.running = left,
                                    !.started = PushAll(@, ready),
                                    !.pc = IF left = <<>> THEN "Closed" ELSE "Streaming"]
    /\ UNCHANGED <<schedVars, harnessVars, callVars, registryVars, dur>>

\* the client takes the next response off the stream
client_receives ==
    /\ srv.rx = "open"
    /\ srv.received < Len(srv.sent)
    /\ srv' = [srv EXCEPT !.received = @ + 1]
    /\ UNCHANGED <<schedVars, harnessVars, callVars, registryVars, dur>>

\* the task is over and the channel is drained: the stream yields None
stream_ends ==
    /\ srv.rx = "open"
    /\ srv.stream = "Open"
    /\ srv.pc \in {"Closed", "Panic"}
    /\ srv.received = Len(srv.sent)
    /\ srv' = [srv EXCEPT !.stream = "Ended"]
    /\ UNCHANGED <<schedVars, harnessVars, callVars, registryVars, dur>>

\* the client drops the response stream, and with it the receiver
client_drops_stream ==
    /\ srv.rx = "open"
    /\ srv.stream = "Open"
    /\ srv' = [srv EXCEPT !.rx = "dropped", !.stream = "Dropped"]
    /\ UNCHANGED <<schedVars, harnessVars, callVars, registryVars, dur>>

InitServer ==
    /\ pipelines = [n \in {"hardcoded"} |-> construct_hardcoded_pipeline]
    /\ pc = "Idle"
    /\ entry = ""
    /\ req = NoRequest
    /\ pipeline = NoPipeline
    /\ switch_log = <<>>
    /\ fetch_log = <<>>
    /\ fetch_ret = <<>>
    /\ cache = NoCache
    /\ idx = 1
    /\ inflight = {}
    /\ results = <<>>
    /\ step_log = <<>>
    /\ outcome = NoOutcome
    /\ h_test = ""
    /\ h_cache = NoCache
    /\ h_out = HarnessNotRun
    /\ calls = NoCalls
    /\ world = NoWorld
    /\ entries = <<>>
    /\ switch = NoSwitch
    /\ routed = <<>>
    /\ srv \in {RoveService_new(dag) : dag \in ServiceDags}
    /\ dur = IdleDuration

NextServer ==
    \/ \E sid \in SeriesIds, ts \in SeqsUpTo(ServiceTestNames, MaxTests) :
          validate_series_direct(sid, ts)
    \/ get_series_data_returns
    \/ test_future_completes
    \/ client_receives
    \/ stream_ends
    \/ client_drops_stream

SpecServer == InitServer /\ [][NextServer]_vars

\* the runtime keeps polling the spawned task, and the client keeps reading the
\* stream it holds
SpecServerLive ==
    /\ SpecServer
    /\ WF_vars(test_future_completes)
    /\ WF_vars(client_receives)
    /\ WF_vars(stream_ends)

(***************************************************************************)
(* The harness on its own: run_test applied to a test name and a cache     *)
(***************************************************************************)
\* #[serde(rename_all = "snake_case")]: the name a check variant goes by
CheckName(kind) ==
    CASE kind = "SpecialValueCheck" -> "special_value_check"
      [] kind = "RangeCheck" -> "range_check"
      [] kind = "RangeCheckDynamic" -> "range_check_dynamic"
      [] kind = "StepCheck" -> "step_check"
      [] kind = "SpikeCheck" -> "spike_check"
      [] kind = "FlatlineCheck" -> "flatline_check"
      [] kind = "BuddyCheck" -> "buddy_check"
      [] kind = "Sct" -> "sct"
      [] kind = "ModelConsistencyCheck" -> "model_consistency_check"
      [] OTHER -> "dummy"

RealCheckKinds == CheckKinds \ {"Dummy"}

HarnessTests ==
    {"dip_check", "test", "test1", "bogus", "latest"}
    \cup {CheckName(kind) : kind \in RealCheckKinds}

\* caches TestDataSource returns for the paddings asked of it
TestCaches ==
    {r.cache : r \in UNION {TestDataSource_fetch_data(sp, TimeSpec(0, 0, PeriodSeconds),
                                                      l, t, NoValue) :
                                sp \in {SpaceOne("single"), SpaceOne("series"), SpaceAll},
                                l \in 0..MaxLead, t \in 0..MaxTrail}}

\* the SpaceSpec::All cache of a TestDataSource with data_len_spatial: 0, and of
\* any connector whose selector matches no station
EmptyCaches ==
    {DataCache(<<>>, 0, PeriodSeconds, l, t) : l \in 0..MaxLead, t \in 0..MaxTrail}

\* values[k] = None for station i: an observation the backend does not have
WithGap(c, i, k) ==
    [c EXCEPT !.data = [@ EXCEPT ![i] = [@ EXCEPT !.values = [@ EXCEPT ![k] = Gap]]]]

\* caches of all stations with one observation missing
GapCaches ==
    UNION {{WithGap(c, i, k) : i \in 1..Len(c.data), k \in 1..Len(c.data[1].values)} :
              c \in {x \in TestCaches : Len(x.data) = DataLenSpatial}}

HarnessCaches == TestCaches \cup EmptyCaches \cup GapCaches

InitHarness ==
    /\ pipelines = [n \in {"hardcoded"} |-> construct_hardcoded_pipeline]
    /\ pc = "Idle"
    /\ entry = ""
    /\ req = NoRequest
    /\ pipeline = NoPipeline
    /\ switch_log = <<>>
    /\ fetch_log = <<>>
    /\ fetch_ret = <<>>
    /\ cache = NoCache
    /\ idx = 1
    /\ inflight = {}
    /\ results = <<>>
    /\ step_log = <<>>
    /\ outcome = NoOutcome
    /\ h_test \in HarnessTests
    /\ h_cache \in HarnessCaches
    /\ h_out = HarnessNotRun
    /\ entries = <<>>
    /\ switch = NoSwitch
    /\ routed = <<>>
    /\ srv = IdleServer
    /\ dur = IdleDuration
    /\ calls = NoCalls
    /\ world = NoWorld

harness_run ==
    /\ h_out.kind = "NotRun"
    /\ \E env \in HarnessEnvs : h_out' = run_test(h_test, h_cache, env)
    /\ UNCHANGED <<h_test, h_cache>>
    /\ UNCHANGED schedVars
    /\ UNCHANGED callVars
    /\ UNCHANGED <<registryVars, srv, dur>>

NextHarness == harness_run

SpecHarness == InitHarness /\ [][NextHarness]_vars

(***************************************************************************)
(* ISO-8601 durations (met_connectors/src/frost/duration.rs)               *)
(* A string is the sequence of its characters.                             *)
(***************************************************************************)
I32Max == 2147483647
I32Min == (-2147483647) - 1
SecondsPerDay == 86400

Digits == <<"0", "1", "2", "3", "4", "5", "6", "7", "8", "9">>
IsDigit(c) == \E k \in 1..10 : Digits[k] = c
DigitValue(c) == (CHOOSE k \in 1..10 : Digits[k] = c) - 1

\* i32 addition: whether it overflows, and what it wraps to when it does
AddOverflows(x, y) ==
    IF y >= 0 THEN x > I32Max - y ELSE x < I32Min - y

wrapping_add(x, y) ==
    IF ~AddOverflows(x, y) THEN x + y
    ELSE IF y >= 0 THEN (x - I32Max - 1) + (y - I32Max - 1)
    ELSE (x + I32Max + 1) + (y + I32Max + 1)

\* i32 multiplication by a positive constant k
MulOverflows(x, k) ==
    \/ x > I32Max \div k
    \/ x < (I32Min \div k) + (IF I32Min % k = 0 THEN 0 ELSE 1)

RECURSIVE wrapping_mul(_, _)
wrapping_mul(x, k) ==
    IF ~MulOverflows(x, k) THEN x * k
    ELSE IF k = 1 THEN x
    ELSE wrapping_add(wrapping_mul(x, k - 1), x)

\* an i32 under construction: the build panics on overflow (overflow-checks) or wraps
I32(v) == [panic |-> FALSE, value |-> v]

I32Mul(a, k, checks) ==
    IF a.panic THEN a
    ELSE IF MulOverflows(a.value, k) /\ checks THEN [panic |-> TRUE, value |-> 0]
    ELSE I32(wrapping_mul(a.value, k))

I32Add(a, y, checks) ==
    IF a.panic THEN a
    ELSE IF AddOverflows(a.value, y) /\ checks THEN [panic |-> TRUE, value |-> 0]
    ELSE I32(wrapping_add(a.value, y))

\* str::parse::<i32>: an optional sign, then one or more digits, within i32
RECURSIVE parse_digits(_, _, _, _)
parse_digits(str, i, acc, neg) ==
    IF i > Len(str) THEN [ok |-> TRUE, value |-> acc]
    ELSE IF ~IsDigit(str[i]) THEN [ok |-> FALSE, value |-> 0]
    ELSE IF MulOverflows(acc, 10) THEN [ok |-> FALSE, value |-> 0]
    ELSE LET d == IF neg THEN 0 - DigitValue(str[i]) ELSE DigitValue(str[i])
         IN  IF AddOverflows(acc * 10, d) THEN [ok |-> FALSE, value |-> 0]
             ELSE parse_digits(str, i + 1, acc * 10 + d, neg)

parse_i32(str) ==
    IF str = <<>> THEN [ok |-> FALSE, value |-> 0]
    ELSE IF str[1] \in {"+", "-"}
    THEN IF Len(str) = 1 THEN [ok |-> FALSE, value |-> 0]
         ELSE parse_digits(str, 2, 0, str[1] = "-")
    ELSE parse_digits(str, 1, 0, FALSE)

\* str::split_once
split_once(str, ch) ==
    IF \E i \in 1..Len(str) : str[i] = ch
    THEN LET i == CHOOSE j \in 1..Len(str) :
                     str[j] = ch /\ \A l \in 1..(j - 1) : str[l] # ch
         IN  [found |-> TRUE, before |-> SubSeq(str, 1, i - 1),
              after |-> SubSeq(str, i + 1, Len(str))]
    ELSE [found |-> FALSE, before |-> str, after |-> <<>>]

DurationOk(months, seconds) ==
    [kind |-> "Ok", months |-> months, seconds |-> seconds, err |-> ""]
DurationErr(e) == [kind |-> "Err", months |-> 0, seconds |-> 0, err |-> e]
DurationPanic == [kind |-> "Panic", months |-> 0, seconds |-> 0, err |-> ""]

\* dhms_to_duration: i32 arithmetic, converted to i64 afterwards
dhms_to_duration(days, hours, minutes, seconds, checks) ==
    I32Add(I32Mul(I32Add(I32Mul(I32Add(I32Mul(I32(days), 24, checks),
                                       hours, checks),
                                60, checks),
                         minutes, checks),
                  60, checks),
           seconds, checks)

get_terminated(input, terminator) ==
    LET sp == split_once(input, terminator)
        int == parse_i32(sp.before)
    IN  IF sp.found
        THEN IF int.ok THEN [ok |-> TRUE, remainder |-> sp.after, int |-> int.value]
             ELSE [ok |-> FALSE, remainder |-> <<>>, int |-> 0]
        ELSE [ok |-> TRUE, remainder |-> input, int |-> 0]

\* three fields in the order given, then nothing: parse_datespec with Y, M, D and
\* parse_timespec with H, M, S
ParseSpec(spec, t1, t2, t3) ==
    LET a == get_terminated(spec, t1)
        b == get_terminated(a.remainder, t2)
        c == get_terminated(b.remainder, t3)
    IN  IF ~a.ok \/ ~b.ok \/ ~c.ok THEN [ok |-> FALSE, err |-> "not a valid i32", f |-> <<0, 0, 0>>]
        ELSE IF c.remainder # <<>> THEN [ok |-> FALSE, err |-> "trailing characters", f |-> <<0, 0, 0>>]
        ELSE [ok |-> TRUE, err |-> "", f |-> <<a.int, b.int, c.int>>]

\* mutant: characters left over after the date fields are ignored
parse_datespec_lenient(datespec) ==
    LET r == ParseSpec(datespec, "Y", "M", "D")
    IN  IF r.err = "trailing characters" THEN [ok |-> TRUE, err |-> "", f |-> <<0, 0, 0>>]
        ELSE r

parse_datespec(datespec) == ParseSpec(datespec, "Y", "M", "D")

parse_timespec(timespec) == ParseSpec(timespec, "H", "M", "S")

\* RelativeDuration::months(..).with_duration(..)
months_with_duration(months, d) ==
    IF months.panic \/ d.panic THEN DurationPanic
    ELSE DurationOk(months.value, d.value)

parse_duration(input, checks) ==
    IF input = <<>> \/ Head(input) # "P"
    THEN DurationErr("duration was not prefixed with P")
    ELSE LET rest == Tail(input)
             sp == split_once(rest, "T")
             date == parse_datespec(sp.before)
             time == parse_timespec(sp.after)
         IN  IF ~date.ok THEN DurationErr(date.err)
             ELSE IF ~time.ok THEN DurationErr(time.err)
             ELSE months_with_duration(
                      I32Add(I32Mul(I32(date.f[1]), 12, checks), date.f[2], checks),
                      dhms_to_duration(date.f[3], time.f[1], time.f[2], time.f[3],
                                       checks))

(***************************************************************************)
\* the decimal digits of n >= 0
RECURSIVE ToDecimal(_)
ToDecimal(n) ==
    IF n < 10 THEN <<Digits[n + 1]>>
    ELSE Append(ToDecimal(n \div 10), Digits[(n % 10) + 1])

Field(n, designator) == IF n = 0 THEN <<>> ELSE Append(ToDecimal(n), designator)

\* the ISO-8601 text of a RelativeDuration of `months` months and
\* days * 86400 + secs seconds (secs < 86400): years and months, then days, then
\* after a T hours, minutes and seconds; fields that are zero are left out, and
\* the zero duration is PT0S
format_to_iso8601(months, days, secs) ==
    LET date == Field(months \div 12, "Y") \o Field(months % 12, "M") \o Field(days, "D")
        time == Field(secs \div 3600, "H") \o Field((secs % 3600) \div 60, "M")
                    \o Field(secs % 60, "S")
    IN  IF date = <<>> /\ time = <<>> THEN <<"P", "T", "0", "S">>
        ELSE IF time = <<>> THEN <<"P">> \o date
        ELSE <<"P">> \o date \o <<"T">> \o time

\* strings given to parse_duration: every string of up to MaxInputLen characters
\* of DurationAlphabet, the strings of test_parse_duration, and longer ones
DurationAlphabet == {"P", "T", "Y", "M", "D", "H", "S", "0", "1", "-", "X"}

ShortInputs == SeqsUpTo(DurationAlphabet, MaxInputLen)

TestInputs ==
    {<<"P", "1", "Y", "T", "1", "S">>,
     <<"P", "2", "Y", "2", "M", "2", "D", "T", "2", "H", "2", "M", "2", "S">>,
     <<"P", "1", "M">>,
     <<"P", "T", "1", "0", "M">>}

LongInputs ==
    {<<"P", "1", "Y", "2", "M", "3", "D", "T", "4", "H", "5", "M", "6", "S", "X">>,
     <<"P", "1", "Y", "2", "M", "3", "D", "X", "T", "4", "H">>,
     <<"p", "1", "Y", "2", "M", "3", "D">>,
     <<"1", "Y", "2", "M", "3", "D", "T", "4", "H", "5", "M", "6", "S">>,
     <<"P", "1", "D", "2", "M", "3", "Y">>,
     <<"P", "T", "1", "S", "2", "M", "3", "H">>,
     <<"P", "-", "1", "Y">>,
     <<"P", "+", "1", "M">>,
     <<"P", "9", "9", "9", "9", "9", "9", "9", "9", "9", "9", "Y">>,
     <<"P", "1", "7", "8", "9", "5", "6", "9", "7", "1", "Y">>,
     <<"P", "2", "4", "8", "5", "5", "D", "T", "3", "H", "1", "4", "M", "7", "S">>,
     <<"P", "2", "4", "8", "5", "5", "D", "T", "3", "H", "1", "4", "M", "8", "S">>}

DurationInputs == ShortInputs \cup TestInputs \cup LongInputs

\* RelativeDurations that are serialised and parsed back: months, and seconds as
\* whole days plus seconds of the day (2^31 seconds are 24855 days and 11648 s)
DurationMonths == 0..MaxMonths
DurationDays == {0, 2, 24855}
DurationSecs == {0, 1, 600, 7322, 11647, 11648}

\* parse_duration(input)
parse_duration_call ==
    /\ dur.pc = "Idle"
    /\ \E input \in DurationInputs :
          dur' = [pc |-> "Done", input |-> input, from |-> <<>>,
                  out |-> parse_duration(input, world.overflow_checks)]
    /\ UNCHANGED <<schedVars, harnessVars, callVars, registryVars, srv>>

\* a RelativeDuration is written as ISO-8601 text and the text is parsed
round_trip ==
    /\ dur.pc = "Idle"
    /\ \E months \in DurationMonths, days \in DurationDays, secs \in DurationSecs :
          LET text == format_to_iso8601(months, days, secs)
          IN  dur' = [pc |-> "Done", input |-> text, from |-> <<months, days, secs>>,
                      out |-> parse_duration(text, world.overflow_checks)]
    /\ UNCHANGED <<schedVars, harnessVars, callVars, registryVars, srv>>

InitDuration ==
    /\ pipelines = [n \in {"hardcoded"} |-> construct_hardcoded_pipeline]
    /\ pc = "Idle"
    /\ entry = ""
    /\ req = NoRequest
    /\ pipeline = NoPipeline
    /\ switch_log = <<>>
    /\ fetch_log = <<>>
    /\ fetch_ret = <<>>
    /\ cache = NoCache
    /\ idx = 1
    /\ inflight = {}
    /\ results = <<>>
    /\ step_log = <<>>
    /\ outcome = NoOutcome
    /\ h_test = ""
    /\ h_cache = NoCache
    /\ h_out = HarnessNotRun
    /\ calls = NoCalls
    /\ world \in {w \in Worlds : w.kernel = "ok" /\ w.connector_up}
    /\ entries = <<>>
    /\ switch = NoSwitch
    /\ routed = <<>>
    /\ srv = IdleServer
    /\ dur = IdleDuration

NextDuration == parse_duration_call \/ round_trip

SpecDuration == InitDuration /\ [][NextDuration]_vars

(***************************************************************************)
(* Properties                                                              *)
(***************************************************************************)
PipelineResolves == req.test_pipeline \in DOMAIN pipelines
SourceRegistered == req.data_source \in sources

\* C1: validate_direct with a pipeline name that is no key of the pipeline table
\* returns InvalidArg("pipeline not recognised"), whether or not the data source
\* is registered; the data switch and the connectors are not called and no step runs.
C1_UnknownPipelineIsInvalidArg ==
    (entry = "validate_direct" /\ ~PipelineResolves) =>
        /\ pc = "Err"
        /\ outcome = Outcome("InvalidArg", "pipeline not recognised", "", <<>>)
        /\ switch_log = <<>>
        /\ fetch_log = <<>>
        /\ step_log = <<>>
        /\ inflight = {}

C1_Witness ==
    /\ entry = "validate_direct"
    /\ ~PipelineResolves
    /\ SourceRegistered
    /\ outcome.kind = "InvalidArg"

\* C2: validate_direct with a known pipeline and a data source that is not
\* registered returns the data switch's InvalidDataSource error; no connector's
\* fetch_data is invoked and no step is run.
C2_UnregisteredSourceIsInvalidDataSource ==
    (entry = "validate_direct" /\ PipelineResolves /\ ~SourceRegistered) =>
        /\ pc = "Err"
        /\ outcome = Outcome("DataSwitch", "InvalidDataSource", req.data_source, <<>>)
        /\ fetch_log = <<>>
        /\ fetch_ret = <<>>
        /\ step_log = <<>>
        /\ inflight = {}

C2_Witness ==
    /\ entry = "validate_direct"
    /\ PipelineResolves
    /\ ~SourceRegistered
    /\ outcome.kind = "DataSwitch"
    /\ Len(pipeline.steps) > 0

C4_OneResultPerStepInOrder ==
    outcome.kind = "Ok" =>
        /\ Len(outcome.results) = Len(pipeline.steps)
        /\ \A i \in 1..Len(pipeline.steps) :
              outcome.results[i].check = pipeline.steps[i].name

C4_Witness ==
    /\ outcome.kind = "Ok"
    /\ Len(pipeline.steps) = 2
    /\ pipeline.steps[1].check.kind = pipeline.steps[2].check.kind
    /\ pipeline.steps[1].name # pipeline.steps[2].name

\* C5: the steps of one validation run strictly one after the other in pipeline
\* order: step i+1 starts only after step i has ended successfully, and no two
\* steps are running at the same time.
C5_StepsSequential ==
    /\ Cardinality(inflight) <= 1
    /\ \A p \in 1..Len(step_log) :
          /\ step_log[p].i = (p + 1) \div 2
          /\ step_log[p].ev = IF p % 2 = 1 THEN "start" ELSE "end"
          /\ (p > 1 /\ step_log[p].ev = "start") => step_log[p - 1].kind = "Ok"

C5_Witness ==
    /\ Len(step_log) >= 3
    /\ step_log[3].ev = "start"
    /\ step_log[3].i = 2

\* C6: derived padding law. Every pipeline of the table the scheduler was given
\* has num_leading_required and num_trailing_required equal to the maxima of its
\* steps' leading and trailing demands.
C6_PaddingLawForEveryPipeline ==
    \A n \in DOMAIN pipelines :
        <<pipelines[n].num_leading_required, pipelines[n].num_trailing_required>>
            = derive_num_leading_trailing(pipelines[n].steps)

\* C7: when pipeline and data source resolve, the connector named by data_source
\* receives the caller's space_spec, time_spec and extra_spec unchanged and the
\* resolved pipeline's num_leading_required and num_trailing_required; no other
\* connector is invoked.
C7_ArgumentsForwardedUnchanged ==
    /\ \A k \in 1..Len(fetch_log) :
          fetch_log[k] =
              [connector |-> req.data_source,
               space_spec |-> req.space_spec,
               time_spec |-> req.time_spec,
               num_leading_points |-> pipelines[req.test_pipeline].num_leading_required,
               num_trailing_points |-> pipelines[req.test_pipeline].num_trailing_required,
               extra_spec |-> req.extra_spec]
    /\ (entry = "validate_direct" /\ PipelineResolves /\ SourceRegistered)
          => fetch_log # <<>>

C7_Witness ==
    /\ Len(fetch_log) = 1
    /\ fetch_log[1].num_leading_points # fetch_log[1].num_trailing_points
    /\ fetch_log[1].extra_spec # NoValue
    /\ fetch_log[1].time_spec.start # fetch_log[1].time_spec.end

\* C8: one validate_direct call invokes a connector's fetch_data at most once:
\* exactly once when pipeline and data source resolve, never again after a fetch
\* error or a step error; every step runs against the cache of that one fetch.
C8_SingleFetch ==
    /\ Len(fetch_log) <= 1
    /\ Len(fetch_ret) <= Len(fetch_log)
    /\ entry = "validate_direct" =>
          Len(fetch_log) = IF PipelineResolves /\ SourceRegistered THEN 1 ELSE 0
    /\ entry = "validate_direct" =>
          \A p \in 1..Len(step_log) :
              step_log[p].ev = "start" =>
                  /\ Len(fetch_ret) = 1
                  /\ fetch_ret[1].kind = "Ok"
                  /\ step_log[p].cache = fetch_ret[1].cache

C8_Witness ==
    /\ entry = "validate_direct"
    /\ outcome.kind = "Runner"
    /\ Len(step_log) >= 4
    /\ Len(fetch_log) = 1

\* invariants 1 and 3 of a cache handed to the harness: all value vectors have one
\* length T, and T >= num_leading_points + num_trailing_points
CacheInvariants(c) ==
    \A i \in 1..Len(c.data) :
        /\ Len(c.data[i].values) = Len(c.data[1].values)
        /\ Len(c.data[i].values) >= c.num_leading_points + c.num_trailing_points

\* C9: a series check (step_check, dip_check) run on a cache of T values per
\* station with L leading and T_trail trailing points returns T - L - T_trail
\* flags in every flag series, also when T_trail > 0.
C9_SeriesFlagsCoverPayloadOnly ==
    (h_out.kind = "Ok" /\ h_test \in {"step_check", "dip_check"}
        /\ CacheInvariants(h_cache)) =>
        \A i \in 1..Len(h_out.flags) :
            Len(h_out.flags[i].values) =
                Len(h_cache.data[i].values) - h_cache.num_leading_points
                    - h_cache.num_trailing_points

\* C10: the k-th flag (from 0) of a series check carries the time
\* start_time + (L + k) * period, L being the cache's num_leading_points.
C10_FlagTimesStartAtPayload ==
    (h_out.kind = "Ok" /\ h_test \in {"step_check", "dip_check"}) =>
        \A i \in 1..Len(h_out.flags) :
            \A k \in 1..Len(h_out.flags[i].values) :
                h_out.results[(i - 1) * Len(h_out.flags[1].values) + k].time =
                    h_cache.start_time
                        + (h_cache.num_leading_points + (k - 1)) * h_cache.period

Finished(k) == calls[k].pc \in {"Done", "Err", "Panic"}

FetchedOk(k) == calls[k].fetch_ret # <<>> /\ calls[k].fetch_ret[1].kind = "Ok"

\* call i is a validate_direct, call j a schedule_tests on the pipeline the table
\* holds under i's pipeline name and on the cache i's fetch returned
SameRunDirect(i, j) ==
    /\ calls[i].entry = "validate_direct"
    /\ calls[j].entry = "schedule_tests"
    /\ FetchedOk(i)
    /\ calls[j].pipeline = pipelines[calls[i].req.test_pipeline]
    /\ calls[j].cache = calls[i].fetch_ret[1].cache

\* C11: validate_direct returns what schedule_tests(pipelines[pipeline_name], cache)
\* returns for the cache the data switch fetched for that call: the same
\* CheckResults, or the same error.
C11_EntryPointsAgree ==
    \A i, j \in CallIds :
        (SameRunDirect(i, j) /\ Finished(i) /\ Finished(j)) =>
            calls[i].outcome = calls[j].outcome

C11_Witness ==
    \E i, j \in CallIds :
        /\ SameRunDirect(i, j) /\ Finished(i) /\ Finished(j)
        /\ calls[i].outcome.kind = "Ok"
        /\ calls[i].pipeline.steps[1].check.kind = "StepCheck"
        /\ Len(calls[i].outcome.results[1].results[1].values) > 0

HasDuplicateNames(es) ==
    \E a, b \in 1..Len(es) : a # b /\ es[a].name = es[b].name

\* C12: registering two connectors under one source name is an error: the
\* construction of the registry fails, it keeps neither the first nor the last
\* connector registered under that name.
C12_DuplicateRegistrationIsError ==
    (switch.built /\ HasDuplicateNames(entries)) => switch.kind = "Err"

\* calls i and j are validate_direct calls whose arguments differ in nothing but
\* backing_sources
SameButBacking(i, j) ==
    /\ calls[i].entry = "validate_direct"
    /\ calls[j].entry = "validate_direct"
    /\ [calls[i].req EXCEPT !.backing_sources = <<>>]
           = [calls[j].req EXCEPT !.backing_sources = <<>>]

SameRunTwice(i, j) ==
    /\ i # j
    /\ calls[i].entry = "schedule_tests"
    /\ calls[j].entry = "schedule_tests"
    /\ calls[i].pipeline = calls[j].pipeline
    /\ calls[i].cache = calls[j].cache

RECURSIVE schedule_tests_alone(_, _, _, _, _)
schedule_tests_alone(p, c, w, i, acc) ==
    IF i > Len(p.steps) THEN Outcome("Ok", "", "", acc)
    ELSE LET r == run_check(p.steps[i], c, w)
         IN  CASE r.kind = "Ok" -> schedule_tests_alone(p, c, w, i + 1, Append(acc, r.result))
               [] r.kind = "Err" -> Outcome("Runner", r.err, r.name, <<>>)
               [] OTHER -> Outcome("Panic", "", "", <<>>)

\* validate_direct run to its end with nothing else going on
validate_direct_alone(table, r, w) ==
    IF r.test_pipeline \notin DOMAIN table
    THEN Outcome("InvalidArg", "pipeline not recognised", "", <<>>)
    ELSE IF r.data_source \notin sources
    THEN Outcome("DataSwitch", "InvalidDataSource", r.data_source, <<>>)
    ELSE LET p == table[r.test_pipeline]
             ret == ConnectorReturn(
                        ConnectorCall(r.data_source, r.space_spec, r.time_spec,
                                      p.num_leading_required, p.num_trailing_required,
                                      r.extra_spec), w)
         IN  CASE ret.kind = "Ok" -> schedule_tests_alone(p, ret.cache, w, 1, <<>>)
               [] ret.kind = "Err" -> Outcome("DataSwitch", ret.err, "", <<>>)
               [] OTHER -> Outcome("Panic", "", "", <<>>)

ReturnsAsIfAlone ==
    \A k \in CallIds :
        (calls[k].entry = "validate_direct" /\ Finished(k)) =>
            calls[k].outcome = validate_direct_alone(pipelines, calls[k].req, world)

\* C15: validate_direct calls may run concurrently on one Scheduler. No step of any
\* call changes the pipeline table, and under every interleaving each call
\* returns the outcome it would return if it ran alone (connectors and kernels
\* being deterministic).
C15_ConcurrentCallsIsolated == []ReturnsAsIfAlone /\ [][pipelines' = pipelines]_vars

\* call 2 has returned while call 1, started before it, is still between two steps
C15_Witness ==
    /\ calls[1].entry = "validate_direct"
    /\ calls[2].entry = "validate_direct"
    /\ calls[1].req # calls[2].req
    /\ calls[1].pc = "Running" /\ Len(calls[1].results) = 1
    /\ calls[2].pc = "Done"
    /\ Len(calls[2].outcome.results) = 2

\* the status code each kind of error is to be mapped to
StatusFor(cause) ==
    CASE cause = "EmptyTests" -> "InvalidArgument"
      [] cause = "InvalidDataSource" -> "NotFound"
      [] cause \in {"InvalidTestName", "FailedTest", "UnknownFlag"} -> "Aborted"
      [] OTHER -> "Internal"

\* errors of the data switch and of argument checking, and of the harness
MappedCauses ==
    {"EmptyTests", "InvalidDataSource", "InvalidSeriesId", "InvalidExtraSpec", "Io",
     "UnimplementedSeries", "UnimplementedSpatial", "Join", "Other",
     "InvalidTestName", "FailedTest", "UnknownFlag"}

\* C16: at the RPC boundary an invalid argument maps to InvalidArgument, a data
\* switch error of the not-found kind (unregistered source) to NotFound, a
\* harness failure to Aborted, and every other error, among them the data switch
\* errors Io and InvalidExtraSpec, to Internal.
C16_StatusCodeOfEachError ==
    /\ (srv.pc = "Returned" /\ srv.cause \in MappedCauses) =>
          srv.status = StatusFor(srv.cause)
    /\ \A k \in 1..Len(srv.sent) :
          srv.sent[k].kind = "Err" => srv.sent[k].status = StatusFor(srv.sent[k].cause)

\* C17: a validation whose pipeline is empty is rejected as a validation error
\* before any data is fetched: the data switch and the connectors are not called
\* and no successful empty result is returned.
C17_EmptyPipelineRejected ==
    (entry = "validate_direct" /\ PipelineResolves
        /\ pipelines[req.test_pipeline].steps = <<>>) =>
        /\ pc = "Err"
        /\ outcome.kind = "InvalidArg"
        /\ switch_log = <<>>
        /\ fetch_log = <<>>

HasUnimplementedStep(p) ==
    \E i \in 1..Len(p.steps) :
        p.steps[i].check.kind \in {"RangeCheckDynamic", "ModelConsistencyCheck"}

\* C18: a pipeline with a RangeCheckDynamic or ModelConsistencyCheck step, for
\* which no provider is configured, is rejected at validation time: validate_direct
\* returns an error before the data switch is called and before any step runs.
C18_UnimplementedChecksRejectedAtValidation ==
    (entry = "validate_direct" /\ PipelineResolves
        /\ HasUnimplementedStep(pipelines[req.test_pipeline])) =>
        /\ pc = "Err"
        /\ switch_log = <<>>
        /\ fetch_log = <<>>
        /\ step_log = <<>>

\* the test names run_test has an arm for
RealArms == {"dip_check", "step_check", "buddy_check", "sct"}

\* C19: a test that matches no real check is dispatched by name prefix. A name
\* that begins with "test" succeeds with a single flag series holding one
\* Inconclusive flag; any other name returns InvalidTestName carrying that name,
\* and no result.
C19_FallbackByNamePrefix ==
    (h_out.kind # "NotRun" /\ h_test \notin RealArms) =>
        IF starts_with_test(h_test)
        THEN /\ h_out.kind = "Ok"
             /\ h_out.test = h_test
             /\ Len(h_out.flags) = 1
             /\ h_out.flags[1].values = <<"Inconclusive">>
             /\ Len(h_out.results) = 1
             /\ h_out.results[1].flag = "Inconclusive"
        ELSE /\ h_out.kind = "Err"
             /\ h_out.err = "InvalidTestName"
             /\ h_out.name = h_test
             /\ h_out.flags = <<>>
             /\ h_out.results = <<>>

C19_Witness ==
    /\ h_test = "latest"
    /\ h_out.kind = "Err"
    /\ h_out.name = "latest"
    /\ Len(h_cache.data) > 1

\* a cache compatible with a check kind: it satisfies the cache invariants, holds
\* the leading and trailing points the kind asks for, and has a payload
Compatible(kind, c) ==
    LET d == get_num_leading_trailing([kind |-> kind, max |-> FlatlineMax])
    IN  /\ Len(c.data) >= 1
        /\ CacheInvariants(c)
        /\ c.num_leading_points >= d[1]
        /\ c.num_trailing_points >= d[2]
        /\ Len(c.data[1].values) - c.num_leading_points - c.num_trailing_points >= 1

\* C20: dispatch coverage. For every check variant other than Dummy the harness,
\* run on a compatible cache, returns a non-empty flag series and neither
\* InvalidTestName nor another error (failures inside the kernels set aside).
C20_DispatchCoverage ==
    \A kind \in RealCheckKinds :
        (h_test = CheckName(kind) /\ h_out.kind # "NotRun" /\ Compatible(kind, h_cache)
            /\ h_out.err \notin {"FailedTest", "UnknownFlag"}) =>
            /\ h_out.kind = "Ok"
            /\ h_out.flags # <<>>
            /\ \A i \in 1..Len(h_out.flags) : h_out.flags[i].values # <<>>

\* C21: for a fetch with SpaceSpec::One(id), the cache the bundled TestDataSource
\* returns holds exactly one station, and that station's tag is id.
C21_OneStationTaggedById ==
    \A n \in 1..Len(fetch_ret) :
        (fetch_log[n].connector = "test" /\ fetch_log[n].space_spec.kind = "One"
            /\ fetch_ret[n].kind = "Ok") =>
            /\ Len(fetch_ret[n].cache.data) = 1
            /\ fetch_ret[n].cache.data[1].tag = fetch_log[n].space_spec.id

\* C22: every cache validate_direct hands to the harness has value vectors of one
\* length T for all its stations, with T >= num_leading_points +
\* num_trailing_points, whatever padding the pipeline asks for and whatever space
\* selector the connector accepts.
C22_HandedCacheSatisfiesInvariants ==
    (entry = "validate_direct" /\ pc \in {"Running", "Done", "Err"}
        /\ Len(fetch_ret) = 1 /\ fetch_ret[1].kind = "Ok") =>
        /\ cache = fetch_ret[1].cache
        /\ cache.num_leading_points = pipeline.num_leading_required
        /\ cache.num_trailing_points = pipeline.num_trailing_required
        /\ CacheInvariants(cache)

\* whether days * 86400 + secs seconds is a count an i32 holds
SecondsFitI32(days, secs) ==
    \/ days < I32Max \div SecondsPerDay
    \/ days = I32Max \div SecondsPerDay /\ secs <= I32Max % SecondsPerDay

\* C23: a RelativeDuration of m months and s seconds, m and s non-negative, that is
\* serialised as an ISO-8601 duration parses back to exactly m months and s seconds.
C23_DurationRoundTrip ==
    (dur.pc = "Done" /\ dur.from # <<>>) =>
        /\ dur.out.kind = "Ok"
        /\ dur.out.months = dur.from[1]
        /\ SecondsFitI32(dur.from[2], dur.from[3])
        /\ dur.out.seconds = dur.from[2] * SecondsPerDay + dur.from[3]

\* The shape of an ISO-8601 duration, read character by character: P, then the
\* date fields Y, M, D, then optionally T and the time fields H, M, S; each field
\* is an integer (an optional sign and digits) followed by its designator, fields
\* come in this order and any of them may be left out.
DesignatorRank(c, inTime) ==
    IF inTime THEN (IF c = "H" THEN 4 ELSE IF c = "M" THEN 5 ELSE IF c = "S" THEN 6 ELSE 0)
    ELSE (IF c = "Y" THEN 1 ELSE IF c = "M" THEN 2 ELSE IF c = "D" THEN 3 ELSE 0)

IntegerText(num) ==
    LET digits == IF num # <<>> /\ num[1] \in {"+", "-"} THEN Tail(num) ELSE num
    IN  digits # <<>> /\ \A k \in 1..Len(digits) : IsDigit(digits[k])

NoFields == [r \in 1..6 |-> <<>>]

RECURSIVE ScanDuration(_, _, _, _, _, _)
ScanDuration(str, i, inTime, rank, num, fields) ==
    IF i > Len(str) THEN [ok |-> num = <<>>, fields |-> fields]
    ELSE LET c == str[i]
             r == DesignatorRank(c, inTime)
         IN  IF IsDigit(c) \/ c \in {"+", "-"}
             THEN ScanDuration(str, i + 1, inTime, rank, Append(num, c), fields)
             ELSE IF c = "T" /\ ~inTime /\ num = <<>>
             THEN ScanDuration(str, i + 1, TRUE, 3, <<>>, fields)
             ELSE IF r > rank /\ IntegerText(num)
             THEN ScanDuration(str, i + 1, inTime, r, <<>>,
                               [fields EXCEPT ![r] = num])
             ELSE [ok |-> FALSE, fields |-> fields]

WellFormedDuration(str) ==
    /\ str # <<>>
    /\ str[1] = "P"
    /\ ScanDuration(str, 2, FALSE, 0, <<>>, NoFields).ok

\* the same duration with every omitted field written as 0
WithZeroFields(str) ==
    LET f == ScanDuration(str, 2, FALSE, 0, <<>>, NoFields).fields
        Z(r) == IF f[r] = <<>> THEN <<"0">> ELSE f[r]
    IN  <<"P">> \o Z(1) \o <<"Y">> \o Z(2) \o <<"M">> \o Z(3) \o <<"D", "T">>
            \o Z(4) \o <<"H">> \o Z(5) \o <<"M">> \o Z(6) \o <<"S">>

\* C24: parse_duration reads an omitted field as zero and "P" alone as the zero
\* duration, and returns a Parse error, never a duration, for an input without the
\* leading P or with text left over after the date fields (Y, M, D in this order)
\* or after the time fields (H, M, S in this order).
C24_OmittedFieldsAndTrailingText ==
    dur.pc = "Done" =>
        /\ dur.input = <<"P">> => dur.out = DurationOk(0, 0)
        /\ ~WellFormedDuration(dur.input) => dur.out.kind = "Err"
        /\ WellFormedDuration(dur.input) =>
              dur.out = parse_duration(WithZeroFields(dur.input), world.overflow_checks)

C24_Witness ==
    /\ dur.pc = "Done"
    /\ Len(dur.input) >= 4
    /\ dur.input[1] = "P"
    /\ WellFormedDuration(SubSeq(dur.input, 1, Len(dur.input) - 1))
    /\ ~WellFormedDuration(dur.input)
    /\ dur.out = DurationErr("trailing characters")

\* the six numbers y, m, d, h, n, s written in a well-formed duration (0 for a field
\* left out), if each is an i32
FieldValues(str) ==
    LET f == ScanDuration(str, 2, FALSE, 0, <<>>, NoFields).fields
        v == [r \in 1..6 |-> IF f[r] = <<>> THEN [ok |-> TRUE, value |-> 0]
                             ELSE parse_i32(f[r])]
    IN  [ok |-> \A r \in 1..6 : v[r].ok, value |-> [r \in 1..6 |-> v[r].value]]

\* a * k + b as an integer, if it is an i32
MulAddExact(a, k, b) ==
    IF ~a.ok THEN a
    ELSE IF MulOverflows(a.value, k) THEN [ok |-> FALSE, value |-> 0]
    ELSE IF AddOverflows(a.value * k, b) THEN [ok |-> FALSE, value |-> 0]
    ELSE [ok |-> TRUE, value |-> a.value * k + b]

\* C25: for a well-formed input PyYmMdDThHnMsS, parse_duration returns
\* months = 12*y + m and, apart from them, seconds = ((d*24 + h)*60 + n)*60 + s:
\* an M before the T counts months, an M after the T counts minutes, and months
\* are never converted into seconds.
C25_MonthsKeptApartFromSeconds ==
    (dur.pc = "Done" /\ WellFormedDuration(dur.input)) =>
        LET f == FieldValues(dur.input)
            y == [ok |-> f.ok, value |-> f.value[1]]
            d == [ok |-> f.ok, value |-> f.value[3]]
            months == MulAddExact(y, 12, f.value[2])
            seconds == MulAddExact(MulAddExact(MulAddExact(d, 24, f.value[4]),
                                               60, f.value[5]),
                                   60, f.value[6])
        IN  /\ months.ok
            /\ seconds.ok
            /\ dur.out = DurationOk(months.value, seconds.value)

\* the nodes reachable from a set of nodes through children edges
RECURSIVE Descendants(_, _)
Descendants(dag, S) ==
    LET more == S \cup UNION {dag.children[n] : n \in S}
    IN  IF more = S THEN S ELSE Descendants(dag, more)

SubdagBuilt == srv.pc \in {"Streaming", "Closed", "Stopped"}

\* C27: construct_subdag returns a DAG whose nodes are exactly the requested tests
\* and all their descendants in the service DAG, each once, and whose edges are
\* exactly the service DAG's edges between those nodes (1 edge for test4 and all 6
\* for test1 in the fake DAG), also when a requested test is a descendant of another.
C27_SubdagIsRequestedPlusDescendants ==
    SubdagBuilt =>
        LET sub == srv.sub
            wanted == Descendants(srv.dag, {srv.tests[k] : k \in 1..Len(srv.tests)})
        IN  /\ \A k, l \in 1..Len(sub.elems) : sub.elems[k] = sub.elems[l] => k = l
            /\ {sub.elems[k] : k \in 1..Len(sub.elems)} = wanted
            /\ \A k, l \in 1..Len(sub.edges) : sub.edges[k] = sub.edges[l] => k = l
            /\ {<<sub.elems[sub.edges[k][1]], sub.elems[sub.edges[k][2]]>> :
                    k \in 1..Len(sub.edges)}
                 = {e \in wanted \X wanted : e[2] \in srv.dag.children[e[1]]}
            /\ (srv.dag = construct_fake_dag /\ srv.tests = <<"test4">>) =>
                  Len(sub.edges) = 1
            /\ (srv.dag = construct_fake_dag /\ srv.tests = <<"test1">>) =>
                  Len(sub.edges) = 6

C27_Witness ==
    /\ SubdagBuilt
    /\ srv.dag = construct_fake_dag
    /\ srv.tests = <<"test4", "test1">>
    /\ Len(srv.sub.elems) = 6
    /\ Len(srv.sub.edges) = 6

\* the stream is over, the client kept it to the end, and no test run failed
AllRunsSucceeded ==
    /\ srv.stream = "Ended"
    /\ srv.pc = "Closed"
    /\ \A k \in 1..Len(srv.sent) : srv.sent[k].kind = "Ok"

OneResponsePerNode ==
    AllRunsSucceeded =>
        /\ srv.received = Len(srv.sent)
        /\ Len(srv.sent) = Cardinality(srv.subdag)
        /\ {srv.sent[k].test : k \in 1..Len(srv.sent)} = srv.subdag
        /\ srv.subdag = Descendants(srv.dag, {srv.tests[k] : k \in 1..Len(srv.tests)})
        /\ (srv.dag = construct_fake_dag /\ srv.tests = <<"test1">>) => Len(srv.sent) = 6

\* C26: in the DAG-scheduled RPC path a request whose test runs all succeed yields
\* exactly one response per node of the sub-DAG of the requested tests and their
\* descendants (6 for the root of the fake DAG), and then the response stream ends.
C26_OneResponsePerNodeThenEnd ==
    /\ []OneResponsePerNode
    /\ (srv.stream = "Open") ~> (srv.stream \in {"Ended", "Dropped"})

C26_Witness ==
    /\ AllRunsSucceeded
    /\ srv.dag = construct_fake_dag
    /\ srv.tests = <<"test1">>
    /\ Len(srv.sent) = 6
    /\ srv.received = 6

\* the nodes whose run has completed successfully: an Ok response was sent for them
Succeeded == {i \in 1..Len(srv.sub.elems) :
                \E k \in 1..Len(srv.sent) :
                    srv.sent[k].kind = "Ok" /\ srv.sent[k].test = srv.sub.elems[i]}

\* C30: the DAG scheduler starts a test only after every one of its children in
\* the sub-DAG has completed successfully, starts the leaves first, and starts each
\* node of the sub-DAG at most once in one validation, whatever the order in which
\* the concurrently running tests complete.
C30_ParentsAfterChildrenOnce ==
    SubdagBuilt =>
        LET leaves == SubLeaves(srv.sub)
        IN  /\ \A k, l \in 1..Len(srv.started) : srv.started[k] = srv.started[l] => k = l
            /\ \A k \in 1..Len(srv.started) :
                  SubChildren(srv.sub, srv.started[k]) \subseteq Succeeded
            /\ Len(srv.started) >= Cardinality(leaves)
            /\ {srv.started[k] : k \in 1..Cardinality(leaves)} = leaves
            /\ \A k \in 1..Len(srv.running) :
                  \E l \in 1..Len(srv.started) : srv.started[l] = srv.running[k]

C30_Witness ==
    /\ srv.pc = "Closed"
    /\ srv.dag = construct_fake_dag
    /\ Len(srv.started) = 6
    /\ Len(srv.completed) = 6
    /\ srv.completed # srv.started
    /\ \A k \in 1..Len(srv.sent) : srv.sent[k].kind = "Ok"

\* C29: once the tests of a validation are running, the client dropping the
\* response stream takes effect only between test runs: after the receiver is
\* dropped the scheduling task starts no further test and queues no further
\* response, and the first result it then tries to send ends the task.
C29_CancellationBetweenTestRuns ==
    [][srv.rx = "dropped" =>
          /\ srv'.started = srv.started
          /\ srv'.sent = srv.sent
          /\ srv'.rx = "dropped"
          /\ (srv.pc = "Streaming" /\ srv'.completed # srv.completed) =>
                 /\ srv'.pc = "Stopped"
                 /\ srv'.running = <<>>
                 /\ Len(srv'.completed) = Len(srv.completed) + 1
          /\ srv.pc = "Stopped" => srv' = srv]_vars

C29_Witness ==
    /\ srv.pc = "Stopped"
    /\ srv.rx = "dropped"
    /\ Len(srv.sent) >= 1
    /\ Len(srv.completed) = Len(srv.sent) + 1
    /\ Len(srv.started) < Len(srv.sub.elems)
    /\ srv.sub.elems[srv.completed[Len(srv.completed)]] \notin
           {srv.sent[k].test : k \in 1..Len(srv.sent)}

\* the spatial checks among the steps of the pipeline being run
SpatialSteps == {i \in 1..Len(pipeline.steps) :
                    pipeline.steps[i].check.kind \in {"BuddyCheck", "Sct"}}

\* C28: a validation of all stations (SpaceSpec::All) on the test connector that
\* runs buddy_check and sct returns one result per such check, and each of these
\* results has one flag series per station, DataLenSpatial of them, holding one
\* flag, the one of the requested timestamp: none for a leading or trailing row.
C28_SpatialOneFlagPerStation ==
    (entry = "validate_direct" /\ pc = "Done" /\ req.data_source = "test"
        /\ req.space_spec = SpaceAll) =>
        \A i \in SpatialSteps :
            /\ Cardinality({k \in 1..Len(outcome.results) :
                   outcome.results[k].check = pipeline.steps[i].name}) = 1
            /\ \A k \in 1..Len(outcome.results) :
                   outcome.results[k].check = pipeline.steps[i].name =>
                       /\ Len(outcome.results[k].results) = DataLenSpatial
                       /\ \A s \in 1..DataLenSpatial :
                              Len(outcome.results[k].results[s].values) = 1

\* a run of the validation has returned an error
RunFailed == \E k \in 1..Len(srv.outcomes) : srv.outcomes[k] = "Err"

\* the failing run's result was sent while the receiver was still held
FailureSent == RunFailed /\ srv.pc = "Closed"

\* C31: when a test run fails in the DAG scheduler, the failure is sent as one
\* error item, which is the last item of the stream; the task then ends, which
\* closes the channel, and no test is started, completed or reported after the
\* failure.
C31_FailureIsLastItem ==
    /\ [](RunFailed =>
            /\ srv.outcomes[Len(srv.outcomes)] = "Err"
            /\ \A k \in 1..(Len(srv.outcomes) - 1) : srv.outcomes[k] = "Ok"
            /\ srv.running = <<>>
            /\ srv.pc \in {"Closed", "Stopped"}
            /\ srv.pc = "Stopped" => srv.rx = "dropped"
            /\ FailureSent =>
                  /\ Len(srv.sent) = Len(srv.outcomes)
                  /\ srv.sent[Len(srv.sent)].kind = "Err"
                  /\ srv.sent[Len(srv.sent)].status = "Aborted"
                  /\ \A k \in 1..(Len(srv.sent) - 1) : srv.sent[k].kind = "Ok")
    /\ [][RunFailed =>
            /\ srv'.started = srv.started
            /\ srv'.sent = srv.sent
            /\ srv'.outcomes = srv.outcomes
            /\ srv'.pc = srv.pc]_vars

C31_Witness ==
    /\ FailureSent
    /\ srv.stream = "Ended"
    /\ srv.received = Len(srv.sent)
    /\ Len(srv.completed) < Len(srv.started)

\* C32: the response channel of a validation is created with capacity equal to
\* the number of nodes of the sub-DAG; wherever channel() has been called this
\* capacity is at least 1, and the number of items sent never exceeds it, so
\* the items queued and not yet read never fill the channel beyond its capacity
\* and no send waits for the client.
C32_ChannelCapacityCoversAllSends ==
    srv.capacity # <<>> =>
        /\ srv.capacity[1] = Len(srv.sub.elems)
        /\ srv.capacity[1] = Cardinality(srv.subdag)
        /\ srv.capacity[1] >= 1
        /\ Len(srv.sent) <= srv.capacity[1]
        /\ Len(srv.sent) - srv.received <= srv.capacity[1]
        /\ srv.pc = "Streaming" => Len(srv.sent) < srv.capacity[1]

C32_Witness ==
    /\ srv.capacity = <<6>>
    /\ Len(srv.sent) = 6
    /\ srv.received = 0
    /\ srv.pc = "Closed"

\* C33: whenever a series check is handed a cache, the cache's num_leading_points
\* is at least the check's leading count per run, so num_leading_points -
\* LEADING_PER_RUN, computed in u8, does not underflow.
C33_LeadingCoversPerRunWindow ==
    \A k \in 1..Len(step_log) :
        (step_log[k].ev = "start"
            /\ pipeline.steps[step_log[k].i].check.kind = "StepCheck") =>
            step_log[k].cache.num_leading_points >= StepLeadingPerRun

\* C34: running any check on a cache of zero stations completes without fault
\* and yields a result with no flag series.
C34_EmptyCacheYieldsNoFlags ==
    (h_out.kind # "NotRun" /\ h_cache.data = <<>>
        /\ h_test \in {"dip_check", "step_check", "buddy_check", "sct"}) =>
        /\ h_out.kind = "Ok"
        /\ h_out.flags = <<>>
        /\ h_out.results = <<>>

\* C35: running a spatial check on a cache in which an observation is missing
\* returns a result or a harness error value; the run does not abort.
C35_GapsDoNotAbortSpatialChecks ==
    (h_out.kind # "NotRun" /\ h_test \in {"buddy_check", "sct"}
        /\ h_cache.data # <<>>
        /\ \E i \in 1..Len(h_cache.data) :
              \E k \in 1..Len(h_cache.data[i].values) : h_cache.data[i].values[k] = Gap) =>
        h_out.kind \in {"Ok", "Err"}

\* the connector's fetch of the call has returned a value
FetchReturned == fetch_ret # <<>> /\ fetch_ret[Len(fetch_ret)].kind # "Panic"

\* the harness runs of the call that have returned, in order
StepEnds == SelectSeq(step_log, LAMBDA e : e.ev = "end")

\* C36: a validate_direct call whose fetch returns ends in one of four outcomes,
\* decided stage by stage: InvalidArg when the pipeline does not resolve, else the
\* data switch's error when the fetch fails, else the Runner error of the first
\* failing step, else Ok with one result per step; a later stage is not entered
\* after an earlier one failed, and the call ends in no other way.
C36_FourOutcomesInStageOrder ==
    entry = "validate_direct" =>
        /\ (pc = "Panic" => ~FetchReturned)
        /\ (pc \in {"Err", "Done"} =>
              /\ outcome.kind \in {"InvalidArg", "DataSwitch", "Runner", "Ok"}
              /\ outcome.kind = "InvalidArg" <=> ~PipelineResolves
              /\ outcome.kind = "InvalidArg" => (switch_log = <<>> /\ fetch_log = <<>>)
              /\ outcome.kind = "DataSwitch" <=>
                    (PipelineResolves
                        /\ (~SourceRegistered
                               \/ (fetch_ret # <<>> /\ fetch_ret[1].kind = "Err")))
              /\ outcome.kind \in {"InvalidArg", "DataSwitch"} => step_log = <<>>
              /\ outcome.kind = "Runner" =>
                    /\ FetchReturned /\ fetch_ret[1].kind = "Ok"
                    /\ StepEnds[Len(StepEnds)].kind = "Err"
                    /\ \A k \in 1..(Len(StepEnds) - 1) : StepEnds[k].kind = "Ok"
              /\ outcome.kind = "Ok" =>
                    /\ pc = "Done"
                    /\ Len(outcome.results) = Len(pipeline.steps)
                    /\ \A k \in 1..Len(StepEnds) : StepEnds[k].kind = "Ok")

\* C37: for all day, hour, minute and second fields parse_duration accepts, each an
\* i32, the seconds of the result are ((d*24 + h)*60 + n)*60 + s as an integer: no
\* intermediate value of the i32 arithmetic leaves the i32 range.
C37_SecondsArithmeticIsExact ==
    (dur.pc = "Done" /\ WellFormedDuration(dur.input) /\ FieldValues(dur.input).ok) =>
        LET f == FieldValues(dur.input)
            months == MulAddExact([ok |-> TRUE, value |-> f.value[1]], 12, f.value[2])
            seconds == MulAddExact(MulAddExact(MulAddExact(
                           [ok |-> TRUE, value |-> f.value[3]], 24, f.value[4]),
                           60, f.value[5]), 60, f.value[6])
        IN  /\ seconds.ok
            /\ months.ok => (dur.out.kind = "Ok" /\ dur.out.seconds = seconds.value)

\* the padding a check asks for, as the table of check kinds gives it
PaddingDemand(check) ==
    IF check.kind = "StepCheck" THEN <<STEP_LEADING_PER_RUN, 0>>
    ELSE IF check.kind = "SpikeCheck" THEN <<SPIKE_LEADING_PER_RUN, SPIKE_TRAILING_PER_RUN>>
    ELSE IF check.kind = "FlatlineCheck" THEN <<check.max, 0>>
    ELSE <<0, 0>>

\* the largest number of a set of naturals, 0 for the empty set
SetMax(S) == IF S = {} THEN 0 ELSE CHOOSE x \in S : \A y \in S : y <= x

\* C38: the padding demand of a step is (0, 0) for SpecialValueCheck, RangeCheck,
\* RangeCheckDynamic, BuddyCheck, Sct, ModelConsistencyCheck and Dummy,
\* (STEP_LEADING, 0) for StepCheck, (SPIKE_LEADING, SPIKE_TRAILING) for SpikeCheck
\* and (max, 0) for FlatlineCheck; the derivation over a step list is the
\* element-wise maximum of the demands, (0, 0) for the empty list.
C38_PaddingDemandPerCheck ==
    /\ \A kind \in CheckKinds, max \in 0..FlatlineMax :
          get_num_leading_trailing([kind |-> kind, max |-> max])
              = PaddingDemand([kind |-> kind, max |-> max])
    /\ derive_num_leading_trailing(<<>>) = <<0, 0>>
    /\ \A n \in DOMAIN pipelines :
          LET steps == pipelines[n].steps
          IN  derive_num_leading_trailing(steps) =
                  <<SetMax({PaddingDemand(steps[i].check)[1] : i \in 1..Len(steps)}),
                    SetMax({PaddingDemand(steps[i].check)[2] : i \in 1..Len(steps)})>>
    /\ (pc = "Fetching" /\ pipeline \in LoadedPipelines) =>
          LET call == fetch_log[Len(fetch_log)]
          IN  /\ call.num_leading_points =
                    SetMax({PaddingDemand(pipeline.steps[i].check)[1] :
                               i \in 1..Len(pipeline.steps)})
              /\ call.num_trailing_points =
                    SetMax({PaddingDemand(pipeline.steps[i].check)[2] :
                               i \in 1..Len(pipeline.steps)})

C38_Witness ==
    /\ pc = "Fetching"
    /\ pipeline \in LoadedPipelines
    /\ \E i \in 1..Len(pipeline.steps) : pipeline.steps[i].check.kind = "FlatlineCheck"
    /\ \E i \in 1..Len(pipeline.steps) : pipeline.steps[i].check.kind = "SpikeCheck"
    /\ fetch_log[Len(fetch_log)].num_leading_points = FlatlineMax
    /\ fetch_log[Len(fetch_log)].num_trailing_points = SPIKE_TRAILING_PER_RUN

====
